---------------------------- MODULE Spec2Model ----------------------------
(***************************************************************************)
(* Recurrence materialization, timer accounting and streak qualification   *)
(* of the task tracker backend (backend/apps/tasks, backend/apps/streak).  *)
(*                                                                         *)
(* Dates are integers: the number of days since the epoch 2024-01-01.      *)
(* Timestamps are integers: the number of seconds since the epoch's        *)
(* midnight (UTC), never negative.  NULL stands for None / SQL NULL in a     *)
(* timestamp or time-of-day column, NoPattern for a NULL recurring_pattern. *)
(***************************************************************************)
EXTENDS Integers, Sequences, FiniteSets, TLC

NULL == 0 - 1
NoPattern == "none"

PENDING == "pending"
COMPLETED == "completed"

DAILY == "daily"
MONTHLY == "monthly"
YEARLY == "yearly"
CUSTOM == "custom"

Max(a, b) == IF a >= b THEN a ELSE b
Min(a, b) == IF a <= b THEN a ELSE b

(***************************************************************************)
(* The proleptic Gregorian calendar of datetime.date and calendar.         *)
(***************************************************************************)
IsLeap(year) == year % 4 = 0 /\ (year % 100 # 0 \/ year % 400 = 0)

\* calendar.monthrange(year, month)[1]
DaysInMonth(year, month) ==
    IF month = 2 THEN (IF IsLeap(year) THEN 29 ELSE 28)
    ELSE IF month \in {4, 6, 9, 11} THEN 30 ELSE 31

DaysBeforeYear(year) ==
    LET y == year - 1 IN y * 365 + (y \div 4) - (y \div 100) + (y \div 400)

RECURSIVE DaysBeforeMonth(_, _)
DaysBeforeMonth(year, month) ==
    IF month = 1 THEN 0
    ELSE DaysBeforeMonth(year, month - 1) + DaysInMonth(year, month - 1)

\* a plausible slip: any day number up to 31 is taken, the date rolling into the next month
AnyDayNumber(year, month, day) == month \in 1..12 /\ day \in 1..31

\* date(year, month, day).toordinal(); date() raises ValueError outside the month
ValidYmd(year, month, day) ==
    month \in 1..12 /\ day >= 1 /\ day <= DaysInMonth(year, month)

Ymd2Ord(year, month, day) ==
    DaysBeforeYear(year) + DaysBeforeMonth(year, month) + day

EpochOrdinal == Ymd2Ord(2024, 1, 1)

\* date.fromordinal(n) as (year, month, day)
Ord2Ymd(ordinal) ==
    LET n0 == ordinal - 1
        n400 == n0 \div 146097
        r400 == n0 % 146097
        n100 == r400 \div 36524
        r100 == r400 % 36524
        n4 == r100 \div 1461
        r4 == r100 % 1461
        n1 == r4 \div 365
        n == r4 % 365
        year == n400 * 400 + 1 + n100 * 100 + n4 * 4 + n1
    IN  IF n1 = 4 \/ n100 = 4
        THEN [year |-> year - 1, month |-> 12, day |-> 31]
        ELSE LET m == CHOOSE mm \in 1..12 :
                        /\ DaysBeforeMonth(year, mm) <= n
                        /\ n < DaysBeforeMonth(year, mm) + DaysInMonth(year, mm)
             IN [year |-> year, month |-> m, day |-> n - DaysBeforeMonth(year, m) + 1]

MkDate(year, month, day) == Ymd2Ord(year, month, day) - EpochOrdinal
YearOf(d) == Ord2Ymd(d + EpochOrdinal).year
MonthOf(d) == Ord2Ymd(d + EpochOrdinal).month
DayOf(d) == Ord2Ymd(d + EpochOrdinal).day

\* date.weekday(): Monday = 0 .. Sunday = 6
Weekday(d) == (d + EpochOrdinal + 6) % 7

SecondsPerDay == 24 * 60 * 60

\* datetime.date() of a UTC timestamp
DateOf(ts) == ts \div SecondsPerDay

\* datetime.combine(date, time, tzinfo=UTC); a time of day is seconds after midnight
Combine(d, tod) == d * SecondsPerDay + tod

(***************************************************************************)
(* Recurrence evaluator (apps/tasks/occurrences.py)                        *)
(***************************************************************************)
\* a plausible slip: a month shorter than the anchor day gets its last day instead
RECURSIVE IterMonthlyClamped(_, _, _, _, _)
IterMonthlyClamped(year, month, start, end, day) ==
    IF MkDate(year, month, 1) > end THEN << >>
    ELSE LET candidate == MkDate(year, month, Min(day, DaysInMonth(year, month)))
             here == IF start <= candidate /\ candidate <= end
                     THEN << candidate >> ELSE << >>
         IN  here \o (IF month = 12
                      THEN IterMonthlyClamped(year + 1, 1, start, end, day)
                      ELSE IterMonthlyClamped(year, month + 1, start, end, day))

RECURSIVE IterMonthlyFrom(_, _, _, _, _)
IterMonthlyFrom(year, month, start, end, day) ==
    IF MkDate(year, month, 1) > end THEN << >>
    ELSE LET last_day == DaysInMonth(year, month)
             candidate == MkDate(year, month, day)
             here == IF day <= last_day /\ start <= candidate /\ candidate <= end
                     THEN << candidate >> ELSE << >>
         IN  here \o (IF month = 12
                      THEN IterMonthlyFrom(year + 1, 1, start, end, day)
                      ELSE IterMonthlyFrom(year, month + 1, start, end, day))

_iter_monthly_dates(start, end, day) ==
    IterMonthlyFrom(YearOf(start), MonthOf(start), start, end, day)

RECURSIVE IterYearlyFrom(_, _, _, _, _)
IterYearlyFrom(year, start, end, month, day) ==
    IF year > YearOf(end) THEN << >>
    ELSE LET here == IF ~ValidYmd(year, month, day) THEN << >>
                     ELSE LET candidate == MkDate(year, month, day)
                          IN IF start <= candidate /\ candidate <= end
                             THEN << candidate >> ELSE << >>
         IN here \o IterYearlyFrom(year + 1, start, end, month, day)

_iter_yearly_dates(start, end, month, day) ==
    IterYearlyFrom(YearOf(start), start, end, month, day)

\* a plausible slip: range(days) for range(days + 1), the last day is lost
DailyDatesShort(effective_start, range_end) ==
    [i \in 1..(range_end - effective_start) |-> effective_start + i - 1]

\* [effective_start + offset for offset in range(days + 1)]
DailyDates(effective_start, range_end) ==
    [i \in 1..(range_end - effective_start + 1) |-> effective_start + i - 1]

\* a plausible slip: the set is read with Python's weekday index (Monday = 0)
RECURSIVE CustomDatesMondayFirst(_, _, _)
CustomDatesMondayFirst(candidate, range_end, custom_days) ==
    IF candidate > range_end THEN << >>
    ELSE (IF Weekday(candidate) \in custom_days THEN << candidate >> ELSE << >>)
         \o CustomDatesMondayFirst(candidate + 1, range_end, custom_days)

RECURSIVE CustomDates(_, _, _)
CustomDates(candidate, range_end, custom_days) ==
    IF candidate > range_end THEN << >>
    ELSE LET frontend_weekday == (Weekday(candidate) + 1) % 7
         IN (IF frontend_weekday \in custom_days THEN << candidate >> ELSE << >>)
            \o CustomDates(candidate + 1, range_end, custom_days)

\* a plausible slip: the rule is applied from range_start, the anchor forgotten
DatesIgnoreAnchor(task, range_start, range_end) ==
    IF range_start > range_end THEN << >>
    ELSE LET first_date == task.scheduled_date
             single == IF range_start <= first_date /\ first_date <= range_end
                       THEN << first_date >> ELSE << >>
    IN  IF ~task.is_recurring \/ task.recurring_pattern = NoPattern THEN single
        ELSE IF task.recurring_pattern = DAILY THEN DailyDates(range_start, range_end)
        ELSE IF task.recurring_pattern = MONTHLY
             THEN _iter_monthly_dates(range_start, range_end, DayOf(first_date))
        ELSE IF task.recurring_pattern = YEARLY
             THEN _iter_yearly_dates(range_start, range_end,
                                     MonthOf(first_date), DayOf(first_date))
        ELSE IF task.custom_days = {} THEN single
        ELSE CustomDates(range_start, range_end, task.custom_days)

\* a plausible slip: an empty weekday set matches no date at all
DatesEmptySetNone(task, range_start, range_end) ==
    IF range_start > range_end \/ task.scheduled_date > range_end THEN << >>
    ELSE LET first_date == task.scheduled_date
             effective_start == Max(first_date, range_start)
    IN  IF ~task.is_recurring \/ task.recurring_pattern = NoPattern
        THEN (IF effective_start <= first_date THEN << first_date >> ELSE << >>)
        ELSE IF task.recurring_pattern = DAILY
             THEN DailyDates(effective_start, range_end)
        ELSE IF task.recurring_pattern = MONTHLY
             THEN _iter_monthly_dates(effective_start, range_end, DayOf(first_date))
        ELSE IF task.recurring_pattern = YEARLY
             THEN _iter_yearly_dates(effective_start, range_end,
                                     MonthOf(first_date), DayOf(first_date))
        ELSE CustomDates(effective_start, range_end, task.custom_days)

occurrence_dates_for_task(task, range_start, range_end) ==
    IF range_start > range_end THEN << >>
    ELSE LET first_date == task.scheduled_date IN
    IF first_date > range_end THEN << >>
    ELSE LET effective_start == Max(first_date, range_start)
             single == IF effective_start <= first_date /\ first_date <= range_end
                       THEN << first_date >> ELSE << >>
    IN  IF ~task.is_recurring \/ task.recurring_pattern = NoPattern THEN single
        ELSE IF task.recurring_pattern = DAILY
             THEN DailyDates(effective_start, range_end)
        ELSE IF task.recurring_pattern = MONTHLY
             THEN _iter_monthly_dates(effective_start, range_end, DayOf(first_date))
        ELSE IF task.recurring_pattern = YEARLY
             THEN _iter_yearly_dates(effective_start, range_end,
                                     MonthOf(first_date), DayOf(first_date))
        ELSE IF task.custom_days = {} THEN single
        ELSE CustomDates(effective_start, range_end, task.custom_days)

task_occurs_on_date(task, target_date) ==
    Len(occurrence_dates_for_task(task, target_date, target_date)) > 0


(***************************************************************************)
(* Overdue / timer deriver (apps/tasks/occurrences.py)                     *)
(***************************************************************************)
occurrence_due_datetime(task, occurrence_date) ==
    IF ~task.has_deadline \/ task.deadline_time = NULL THEN NULL
    ELSE Combine(occurrence_date, task.deadline_time)

\* a plausible slip: an occurrence is overdue from its deadline on, not after it
OverdueAtDeadline(task, occurrence, now_utc) ==
    IF occurrence.status = COMPLETED THEN FALSE
    ELSE LET due_dt == occurrence_due_datetime(task, occurrence.date)
         IN IF due_dt # NULL THEN due_dt <= now_utc
            ELSE occurrence.date <= DateOf(now_utc)

is_occurrence_overdue(task, occurrence, now_utc) ==
    IF occurrence.status = COMPLETED THEN FALSE
    ELSE LET due_dt == occurrence_due_datetime(task, occurrence.date)
         IN IF due_dt # NULL THEN due_dt < now_utc
            ELSE occurrence.date < DateOf(now_utc)

\* a plausible slip: the session length is not floored at zero
ElapsedNoFloor(task, occurrence, now_utc) ==
    LET elapsed == occurrence.timer_seconds
                   + (IF occurrence.timer_running_since # NULL
                      THEN now_utc - occurrence.timer_running_since ELSE 0)
    IN IF task.timer_duration_seconds > 0
       THEN Min(elapsed, task.timer_duration_seconds) ELSE elapsed

occurrence_elapsed_seconds(task, occurrence, now_utc) ==
    LET elapsed == occurrence.timer_seconds
                   + (IF occurrence.timer_running_since # NULL
                      THEN Max(0, now_utc - occurrence.timer_running_since) ELSE 0)
    IN IF task.timer_duration_seconds > 0
       THEN Min(elapsed, task.timer_duration_seconds) ELSE elapsed

\* a plausible slip: the has_timer flag is not consulted
RemainingIgnoresFlag(task, occurrence, now_utc) ==
    Max(0, task.timer_duration_seconds
           - occurrence_elapsed_seconds(task, occurrence, now_utc))

occurrence_remaining_seconds(task, occurrence, now_utc) ==
    IF ~task.has_timer THEN 0
    ELSE Max(0, task.timer_duration_seconds
                - occurrence_elapsed_seconds(task, occurrence, now_utc))

(***************************************************************************)
(* Occurrence store and materializer                                       *)
(*   tasks : task id -> Task row          occs : set of TaskOccurrence rows *)
(*   rules, maxDays : the owner's streak rules, settings.MAX_TASK_RANGE_DAYS *)
(*   sk       : the frame of a streak request                               *)
(*   req      : the frames of the requests served concurrently;            *)
(*   served   : the number of requests accepted so far                      *)
(*   fin, fout: the argument and result of a derived value under evaluation *)
(*   users, refreshTokens, resetTokens : the accounts tables               *)
(***************************************************************************)
VARIABLES tasks, nextTaskId, occs, nextOccId, now, rules, maxDays, sk, req, served, fin, fout,
          users, refreshTokens, resetTokens

storeVars == << tasks, nextTaskId, occs, nextOccId, now >>
streakVars == << rules, maxDays, sk >>
reqVars == << req, served >>
evalVars == << fin, fout >>
authVars == << users, refreshTokens, resetTokens >>

vars == << tasks, nextTaskId, occs, nextOccId, now, rules, maxDays, sk, req, served, fin, fout,
           users, refreshTokens, resetTokens >>

\* the order of two Task rows under order_by("scheduled_date", "id") or order_by("id")
Before(a, b, by_date) ==
    IF by_date
    THEN a.scheduled_date < b.scheduled_date
         \/ (a.scheduled_date = b.scheduled_date /\ a.id < b.id)
    ELSE a.id < b.id

RECURSIVE OrderTasks(_, _, _)
OrderTasks(tbl, ids, by_date) ==
    IF ids = {} THEN << >>
    ELSE LET m == CHOOSE x \in ids :
                      \A y \in ids \ {x} : Before(tbl[x], tbl[y], by_date)
         IN << tbl[m] >> \o OrderTasks(tbl, ids \ {m}, by_date)

\* list(Task.objects.filter(owner=user).order_by("id"))
TaskList(tbl) == OrderTasks(tbl, DOMAIN tbl, FALSE)

\* list(queryset.order_by("scheduled_date", "id"))
TaskListByDate(tbl) == OrderTasks(tbl, DOMAIN tbl, TRUE)

\* a query that forgets which task a row belongs to: a date taken by one of the
\* tasks counts as taken for all of them
ExistingDates(S, task_ids, range_start, range_end) ==
    { << t, r.date >> :
        t \in task_ids,
        r \in { x \in S : x.task \in task_ids /\ range_start <= x.date /\ x.date <= range_end } }

\* TaskOccurrence.objects.filter(task_id__in, date__gte, date__lte).values_list("task_id", "date")
ExistingPairs(S, task_ids, range_start, range_end) ==
    { << r.task, r.date >> :
        r \in { x \in S : x.task \in task_ids /\ range_start <= x.date /\ x.date <= range_end } }

\* a seeding that marks every date of a completed recurring template completed
SeedCompletedAnyDate(task, occurrence_date) ==
    LET legacy == task.status = COMPLETED
    IN [ task |-> task.id,
         date |-> occurrence_date,
         status |-> IF legacy THEN COMPLETED ELSE PENDING,
         completed_at |-> IF legacy THEN task.completed_at ELSE NULL,
         timer_seconds |-> IF legacy THEN Max(0, task.timer_total_seconds) ELSE 0,
         timer_running_since |-> NULL ]

\* seed values of a new occurrence (occurrences.py 128-155)
SeedOccurrence(task, occurrence_date) ==
    LET legacy == \/ /\ ~task.is_recurring
                     /\ task.status = COMPLETED
                     /\ occurrence_date = task.scheduled_date
                  \/ /\ task.is_recurring
                     /\ task.status = COMPLETED
                     /\ task.completed_at # NULL
                     /\ occurrence_date = DateOf(task.completed_at)
    IN [ task |-> task.id,
         date |-> occurrence_date,
         status |-> IF legacy THEN COMPLETED ELSE PENDING,
         completed_at |-> IF legacy THEN task.completed_at ELSE NULL,
         timer_seconds |-> IF legacy THEN Max(0, task.timer_total_seconds) ELSE 0,
         timer_running_since |-> NULL ]

RECURSIVE DuePairs(_, _, _)
DuePairs(task_list, range_start, range_end) ==
    IF task_list = << >> THEN << >>
    ELSE LET task == Head(task_list)
             dates == occurrence_dates_for_task(task, range_start, range_end)
         IN [j \in 1..Len(dates) |-> << task, dates[j] >>]
            \o DuePairs(Tail(task_list), range_start, range_end)

RECURSIVE BuildToCreate(_, _)
BuildToCreate(pairs, existing_pairs) ==
    IF pairs = << >> THEN << >>
    ELSE LET task == Head(pairs)[1]
             occurrence_date == Head(pairs)[2]
             key == << task.id, occurrence_date >>
         IN IF key \in existing_pairs
            THEN BuildToCreate(Tail(pairs), existing_pairs)
            ELSE << SeedOccurrence(task, occurrence_date) >>
                 \o BuildToCreate(Tail(pairs), existing_pairs \cup {key})

\* the to_create list of ensure_occurrences_for_tasks
ToCreate(task_list, existing_pairs, range_start, range_end) ==
    BuildToCreate(DuePairs(task_list, range_start, range_end), existing_pairs)

WithId(row, id) ==
    [ id |-> id, task |-> row.task, date |-> row.date, status |-> row.status,
      completed_at |-> row.completed_at, timer_seconds |-> row.timer_seconds,
      timer_running_since |-> row.timer_running_since ]

\* a table without the constraint: no insert is ever refused
NoUniqueConstraint(S, row) == FALSE

\* UniqueConstraint(fields=["task", "date"])
Conflicts(S, row) == \E x \in S : x.task = row.task /\ x.date = row.date

\* a store without the unique constraint: every row is inserted
RECURSIVE BulkCreateNoConstraint(_, _, _)
BulkCreateNoConstraint(S, next, rows) ==
    IF rows = << >> THEN [occs |-> S, next |-> next]
    ELSE BulkCreateNoConstraint(S \cup { WithId(Head(rows), next) }, next + 1, Tail(rows))

\* bulk_create(rows, ignore_conflicts=True): INSERT ... ON CONFLICT DO NOTHING
RECURSIVE BulkCreateIgnoreConflicts(_, _, _)
BulkCreateIgnoreConflicts(S, next, rows) ==
    IF rows = << >> THEN [occs |-> S, next |-> next]
    ELSE IF Conflicts(S, Head(rows))
         THEN BulkCreateIgnoreConflicts(S, next, Tail(rows))
         ELSE BulkCreateIgnoreConflicts(S \cup { WithId(Head(rows), next) },
                                        next + 1, Tail(rows))

TaskIdsOf(task_list) == { task_list[i].id : i \in 1..Len(task_list) }

\* a materializer that neither filters the existing pairs nor relies on the constraint
EnsurePlainInsert(S, next, task_list, range_start, range_end) ==
    BulkCreateNoConstraint(S, next, ToCreate(task_list, {}, range_start, range_end))

\* a materializer that upserts: a row that exists takes the seed values again
EnsureOverwrite(S, next, task_list, range_start, range_end) ==
    LET due == ToCreate(task_list, {}, range_start, range_end)
        seeded(x) == IF \E i \in 1..Len(due) : due[i].task = x.task /\ due[i].date = x.date
                     THEN WithId(CHOOSE row \in { due[i] : i \in 1..Len(due) } :
                                     row.task = x.task /\ row.date = x.date, x.id)
                     ELSE x
    IN BulkCreateIgnoreConflicts({ seeded(x) : x \in S }, next, due)

\* one uninterrupted call of ensure_occurrences_for_tasks on store S
ensure_occurrences_for_tasks(S, next, task_list, range_start, range_end) ==
    IF task_list = << >> \/ range_start > range_end THEN [occs |-> S, next |-> next]
    ELSE LET existing_pairs ==
                 ExistingPairs(S, TaskIdsOf(task_list), range_start, range_end)
             to_create == ToCreate(task_list, existing_pairs, range_start, range_end)
         IN BulkCreateIgnoreConflicts(S, next, to_create)

(***************************************************************************)
(* Streak engine (apps/streak/api.py)                                      *)
(***************************************************************************)
\* one entry of _daily_counts, with the (0, 0) default of counts_map.get
CountsOn(S, d) ==
    [ scheduled |-> Cardinality({ r \in S : r.date = d }),
      completed |-> Cardinality({ r \in S : r.date = d /\ r.status = COMPLETED }) ]

_daily_counts(S, start_date, end_date) ==
    [ d \in start_date..end_date |-> CountsOn(S, d) ]

\* round((completed / scheduled) * 100, 2), in hundredths of a percent
RatioHundredths(scheduled, completed) ==
    IF scheduled <= 0 THEN 0
    ELSE (20000 * completed + scheduled) \div (2 * scheduled)

_day_payload(day, scheduled, completed, min_daily_tasks, threshold_percent) ==
    LET ratio == RatioHundredths(scheduled, completed)
    IN [ date |-> day, scheduled |-> scheduled, completed |-> completed,
         ratio |-> ratio,
         qualified |-> scheduled >= min_daily_tasks /\ ratio >= 100 * threshold_percent ]

\* a scan that forgets the minimum number of scheduled tasks
ScanQualifiedNoMin(scheduled, completed, min_daily_tasks, threshold_percent) ==
    IF scheduled <= 0 THEN 0 >= threshold_percent
    ELSE 100 * completed >= threshold_percent * scheduled

\* the qualification test of the backward scan (streak/api.py 89-91): the ratio
\* (completed / scheduled) * 100 is compared unrounded, here in exact arithmetic
ScanQualified(scheduled, completed, min_daily_tasks, threshold_percent) ==
    /\ scheduled >= min_daily_tasks
    /\ IF scheduled <= 0 THEN 0 >= threshold_percent
       ELSE 100 * completed >= threshold_percent * scheduled

\* a forward pass that forgets to reset the running length
RECURSIVE BestNoReset(_, _, _)
BestNoReset(days, best, current) ==
    IF days = << >> THEN best
    ELSE IF Head(days).qualified
         THEN BestNoReset(Tail(days), Max(best, current + 1), current + 1)
         ELSE BestNoReset(Tail(days), best, current)

RECURSIVE BestPass(_, _, _)
BestPass(days, best, current) ==
    IF days = << >> THEN best
    ELSE IF Head(days).qualified
         THEN BestPass(Tail(days), Max(best, current + 1), current + 1)
         ELSE BestPass(Tail(days), best, 0)

BestStreakNoReset(days) == BestNoReset(days, 0, 0)

_best_streak(days) == BestPass(days, 0, 0)

(***************************************************************************)
(* Initial values                                                          *)
(***************************************************************************)
NoTasks == << >>

EmptyStore ==
    /\ tasks = NoTasks
    /\ nextTaskId = 1
    /\ occs = {}
    /\ nextOccId = 1
    /\ now = 0

\* settings.MAX_TASK_RANGE_DAYS when the environment does not set it
DefaultMaxDays == 31

\* UserSettings defaults (min_daily_tasks = 3, streak_threshold_percent = 80)
DefaultRules == [min_daily_tasks |-> 3, threshold_percent |-> 80]

NoStreak ==
    [ pc |-> "idle", op |-> "none", code |-> "none", range |-> << 0, 0 >>,
      today |-> 0, earliest |-> 0, task_list |-> << >>,
      days |-> << >>, best |-> 0, streak |-> 0, cursor |-> 0,
      window_start |-> 0, window_end |-> 0, counts_map |-> << >>, rounds |-> 0 ]

NoResult == [ready |-> FALSE]

\* no user, no refresh token, no password reset token
NoAccounts ==
    /\ users = << >>
    /\ refreshTokens = {}
    /\ resetTokens = {}

\* nothing but the value under evaluation is in use
OnlyEval ==
    /\ EmptyStore
    /\ rules = DefaultRules
    /\ maxDays = DefaultMaxDays
    /\ sk = NoStreak
    /\ NoAccounts
    /\ req = << >>
    /\ served = 0

(***************************************************************************)
(* Evaluation of the elapsed-time deriver on explicit arguments            *)
(***************************************************************************)
MaxSeconds == 4
TimerCap == 3

ElapsedArgs ==
    [ task : [ has_timer : BOOLEAN, timer_duration_seconds : {0, TimerCap} ],
      occurrence : [ status : {PENDING},
                     timer_seconds : 0..MaxSeconds,
                     timer_running_since : {NULL} \cup 0..MaxSeconds ],
      now : 0..MaxSeconds ]

InitElapsed ==
    /\ OnlyEval
    /\ fin \in ElapsedArgs
    /\ fout = NoResult

EvalElapsed ==
    /\ ~fout.ready
    /\ fout' = [ ready |-> TRUE,
                 elapsed |-> occurrence_elapsed_seconds(fin.task, fin.occurrence, fin.now),
                 remaining |-> occurrence_remaining_seconds(fin.task, fin.occurrence,
                                                            fin.now) ]
    /\ UNCHANGED << storeVars, streakVars, authVars, reqVars, fin >>

NextElapsed == EvalElapsed

SpecElapsed == InitElapsed /\ [][NextElapsed]_vars

\* [lo, hi] clamp
Clamp(x, lo, hi) == IF x < lo THEN lo ELSE IF x > hi THEN hi ELSE x

\* C10 as stated: elapsed = accumulated + (now - runningSince if running, else 0),
\* clamped into [0, duration] when duration > 0, for every now, also one earlier
\* than runningSince.
C10_ElapsedSignedSession ==
    fout.ready =>
        LET acc == fin.occurrence.timer_seconds
            since == fin.occurrence.timer_running_since
            duration == fin.task.timer_duration_seconds
            raw == acc + (IF since # NULL THEN fin.now - since ELSE 0)
        IN fout.elapsed = IF duration > 0 THEN Clamp(raw, 0, duration) ELSE raw

\* C10 amended: the running session contributes now - runningSince only when that
\* is not negative, and 0 otherwise (a now earlier than runningSince adds nothing);
\* the sum is clamped into [0, duration] when duration > 0.
C10_ElapsedFlooredSession ==
    fout.ready =>
        LET acc == fin.occurrence.timer_seconds
            since == fin.occurrence.timer_running_since
            duration == fin.task.timer_duration_seconds
            session == IF since = NULL \/ fin.now < since THEN 0 ELSE fin.now - since
            raw == acc + session
        IN /\ duration <= 0 => fout.elapsed = raw
           /\ duration > 0 =>
                /\ 0 <= fout.elapsed /\ fout.elapsed <= duration
                /\ raw <= duration => fout.elapsed = raw
                /\ raw > duration => fout.elapsed = duration

\* a session whose start lies after now has been evaluated and contributed nothing
C10_Witness ==
    /\ fout.ready
    /\ fin.occurrence.timer_running_since # NULL
    /\ fin.now < fin.occurrence.timer_running_since
    /\ fin.occurrence.timer_seconds > 0
    /\ fin.task.timer_duration_seconds > fin.occurrence.timer_seconds
    /\ fout.elapsed = fin.occurrence.timer_seconds

\* C11: occurrence_remaining_seconds is within [0, duration]: it is
\* max(0, duration - elapsed) when the timer feature is enabled and 0 when it is
\* disabled, for every task, occurrence and now.
C11_RemainingWithinDuration ==
    fout.ready =>
        LET duration == fin.task.timer_duration_seconds
        IN /\ 0 <= fout.remaining /\ fout.remaining <= duration
           /\ ~fin.task.has_timer => fout.remaining = 0
           /\ (fin.task.has_timer /\ fout.elapsed >= duration) => fout.remaining = 0
           /\ (fin.task.has_timer /\ fout.elapsed < duration) =>
                  fout.remaining + fout.elapsed = duration

\* an enabled timer with a running session, part of the duration used, part left
C11_Witness ==
    /\ fout.ready
    /\ fin.task.has_timer
    /\ fin.occurrence.timer_running_since # NULL
    /\ fin.now > fin.occurrence.timer_running_since
    /\ fout.elapsed > fin.occurrence.timer_seconds
    /\ 0 < fout.remaining /\ fout.remaining < fin.task.timer_duration_seconds

(***************************************************************************)
(* Evaluation of the overdue deriver on explicit arguments                 *)
(***************************************************************************)
OverdueDays == 2

\* times of day around midnight and around a deadline at 00:01
ClockTimes == { 0, 59, 60, 61, SecondsPerDay - 1 }

\* a saved task has a deadline time exactly when has_deadline is set (Task.clean)
OverdueArgs ==
    { a \in [ task : [ has_deadline : BOOLEAN, deadline_time : { NULL, 0, 60 } ],
              occurrence : [ status : { PENDING, COMPLETED }, date : 0..(OverdueDays - 1) ],
              now : { Combine(d, t) : d \in 0..OverdueDays, t \in ClockTimes } ] :
        a.task.has_deadline <=> a.task.deadline_time # NULL }

InitOverdue ==
    /\ OnlyEval
    /\ fin \in OverdueArgs
    /\ fout = NoResult

EvalOverdue ==
    /\ ~fout.ready
    /\ fout' = [ ready |-> TRUE,
                 overdue |-> is_occurrence_overdue(fin.task, fin.occurrence, fin.now) ]
    /\ UNCHANGED << storeVars, streakVars, authVars, reqVars, fin >>

SpecOverdue == InitOverdue /\ [][EvalOverdue]_vars

\* C13: is_occurrence_overdue is false for a completed occurrence; otherwise, with a
\* deadline time configured, it is true iff occurrence date + deadline time is strictly
\* before now (equal is not overdue); otherwise it is true iff the occurrence date is
\* strictly before the date of now.
C13_OverdueDerivation ==
    fout.ready =>
        LET date == fin.occurrence.date
            deadline == fin.task.deadline_time
        IN fout.overdue <=>
              /\ fin.occurrence.status # COMPLETED
              /\ IF deadline # NULL
                 THEN date * SecondsPerDay + deadline < fin.now
                 ELSE (date + 1) * SecondsPerDay <= fin.now

\* a pending occurrence evaluated at the very second of its deadline: not overdue
C13_Witness ==
    /\ fout.ready
    /\ fin.occurrence.status = PENDING
    /\ fin.task.deadline_time = 60
    /\ fin.now = fin.occurrence.date * SecondsPerDay + 60
    /\ ~fout.overdue

(***************************************************************************)
(* Evaluation of the two qualification tests on explicit aggregates        *)
(***************************************************************************)
MaxScheduled == 201
MaxCompleted == 4

QualifyArgs ==
    { a \in [ scheduled : 0..MaxScheduled, completed : 0..MaxCompleted,
              min_daily_tasks : {1, 3}, threshold_percent : {1, 80} ] :
        a.completed <= a.scheduled }

InitQualify ==
    /\ OnlyEval
    /\ fin \in QualifyArgs
    /\ fout = NoResult

EvalQualify ==
    /\ ~fout.ready
    /\ fout' = [ ready |-> TRUE,
                 payload |-> _day_payload(0, fin.scheduled, fin.completed,
                                          fin.min_daily_tasks,
                                          fin.threshold_percent).qualified,
                 scan |-> ScanQualified(fin.scheduled, fin.completed,
                                        fin.min_daily_tasks, fin.threshold_percent) ]
    /\ UNCHANGED << storeVars, streakVars, authVars, reqVars, fin >>

NextQualify == EvalQualify

SpecQualify == InitQualify /\ [][NextQualify]_vars

Qualifies(scheduled, completed, min_daily_tasks, threshold_percent) ==
    /\ scheduled >= min_daily_tasks
    /\ scheduled > 0
    /\ 100 * completed >= threshold_percent * scheduled

\* C9: a date qualifies iff scheduled >= minDaily and 100*completed >=
\* thresholdPercent*scheduled (never with scheduled = 0), and the day payload and
\* the backward scan both apply exactly this test.
C9_BothTestsAreThePredicate ==
    fout.ready =>
        LET q == Qualifies(fin.scheduled, fin.completed,
                           fin.min_daily_tasks, fin.threshold_percent)
        IN /\ fout.payload = q
           /\ fout.scan = q
           /\ fin.scheduled = 0 => ~fout.payload /\ ~fout.scan

(***************************************************************************)
(* Streak requests: GET /streak/today and GET /streak/summary, with the    *)
(* chunked backward scan of _current_streak run window by window.          *)
(***************************************************************************)
\* Task.objects.filter(owner=user).aggregate(Min("scheduled_date"))
EarliestTaskDate(tbl) ==
    CHOOSE d \in { tbl[i].scheduled_date : i \in DOMAIN tbl } :
        \A i \in DOMAIN tbl : d <= tbl[i].scheduled_date

\* the days list of streak_summary: one payload per date of [start, end]
DaysPayload(S, start, end, min_daily_tasks, threshold_percent) ==
    [ i \in 1..(end - start + 1) |->
        LET c == CountsOn(S, start + i - 1)
        IN _day_payload(start + i - 1, c.scheduled, c.completed,
                        min_daily_tasks, threshold_percent) ]

\* the request is over: the response carries currentStreak and, for a summary, bestStreak
Finished(frame) ==
    [ frame EXCEPT !.pc = "done", !.code = "ok",
                   !.best = IF frame.op = "summary" THEN _best_streak(frame.days) ELSE 0 ]

\* entry of _current_streak (streak/api.py 70-82) after the handler's own materialization
EnterCurrentStreak(frame, today_utc) ==
    LET f0 == [ frame EXCEPT !.today = today_utc, !.streak = 0, !.cursor = today_utc,
                             !.task_list = TaskList(tasks) ]
    IN IF DOMAIN tasks = {} THEN Finished(f0)
       ELSE LET f1 == [ f0 EXCEPT !.earliest = EarliestTaskDate(tasks) ]
            IN IF today_utc >= f1.earliest THEN [ f1 EXCEPT !.pc = "window" ]
               ELSE Finished(f1)

\* GET /streak/today up to the call of _current_streak
StreakToday ==
    /\ sk.pc = "idle"
    /\ LET today_utc == DateOf(now)
           db == ensure_occurrences_for_tasks(occs, nextOccId, TaskList(tasks),
                                              today_utc, today_utc)
       IN /\ occs' = db.occs
          /\ nextOccId' = db.next
          /\ sk' = EnterCurrentStreak([ sk EXCEPT !.op = "today" ], today_utc)
    /\ UNCHANGED << tasks, nextTaskId, now, rules, maxDays, authVars, reqVars, evalVars >>

\* GET /streak/summary?start&end up to the call of _current_streak
StreakSummary(start, end) ==
    /\ sk.pc = "idle"
    /\ LET frame == [ sk EXCEPT !.op = "summary", !.range = << start, end >> ]
           max_days == Max(1, maxDays)
       IN IF start > end
          THEN /\ sk' = [ frame EXCEPT !.pc = "done", !.code = "validation_error" ]
               /\ UNCHANGED << occs, nextOccId >>
          ELSE IF (end - start) + 1 > max_days
          THEN /\ sk' = [ frame EXCEPT !.pc = "done", !.code = "range_too_large" ]
               /\ UNCHANGED << occs, nextOccId >>
          ELSE LET today_utc == DateOf(now)
                   db1 == ensure_occurrences_for_tasks(occs, nextOccId, TaskList(tasks),
                                                       start, end)
                   days == DaysPayload(db1.occs, start, end,
                                       rules.min_daily_tasks, rules.threshold_percent)
                   db2 == IF start <= today_utc /\ today_utc <= end THEN db1
                          ELSE ensure_occurrences_for_tasks(db1.occs, db1.next,
                                   TaskList(tasks), today_utc, today_utc)
               IN /\ occs' = db2.occs
                  /\ nextOccId' = db2.next
                  /\ sk' = EnterCurrentStreak([ frame EXCEPT !.days = days ], today_utc)
    /\ UNCHANGED << tasks, nextTaskId, now, rules, maxDays, authVars, reqVars, evalVars >>

\* the outer loop taking one day more than the maximum into its window
StreakWindowOneMore ==
    /\ sk.pc = "window"
    /\ LET max_days == Max(1, maxDays)
           window_end == sk.cursor
           window_start == Max(sk.earliest, sk.cursor - max_days)
           db == ensure_occurrences_for_tasks(occs, nextOccId, sk.task_list,
                                              window_start, window_end)
       IN /\ occs' = db.occs
          /\ nextOccId' = db.next
          /\ sk' = [ sk EXCEPT !.pc = "scan",
                               !.window_start = window_start,
                               !.window_end = window_end,
                               !.counts_map = _daily_counts(db.occs, window_start, window_end),
                               !.rounds = sk.rounds + 1 ]
    /\ UNCHANGED << tasks, nextTaskId, now, rules, maxDays, authVars, reqVars, evalVars >>

\* the outer loop aggregating its window before it materializes it
StreakWindowAggregatesFirst ==
    /\ sk.pc = "window"
    /\ LET max_days == Max(1, maxDays)
           window_end == sk.cursor
           window_start == Max(sk.earliest, sk.cursor - (max_days - 1))
           db == ensure_occurrences_for_tasks(occs, nextOccId, sk.task_list,
                                              window_start, window_end)
       IN /\ occs' = db.occs
          /\ nextOccId' = db.next
          /\ sk' = [ sk EXCEPT !.pc = "scan",
                               !.window_start = window_start,
                               !.window_end = window_end,
                               !.counts_map = _daily_counts(occs, window_start, window_end),
                               !.rounds = sk.rounds + 1 ]
    /\ UNCHANGED << tasks, nextTaskId, now, rules, maxDays, authVars, reqVars, evalVars >>

\* one round trip of the outer loop: materialize the window, then aggregate it
StreakWindow ==
    /\ sk.pc = "window"
    /\ LET max_days == Max(1, maxDays)
           window_end == sk.cursor
           window_start == Max(sk.earliest, sk.cursor - (max_days - 1))
           db == ensure_occurrences_for_tasks(occs, nextOccId, sk.task_list,
                                              window_start, window_end)
       IN /\ occs' = db.occs
          /\ nextOccId' = db.next
          /\ sk' = [ sk EXCEPT !.pc = "scan",
                               !.window_start = window_start,
                               !.window_end = window_end,
                               !.counts_map = _daily_counts(db.occs, window_start, window_end),
                               !.rounds = sk.rounds + 1 ]
    /\ UNCHANGED << tasks, nextTaskId, now, rules, maxDays, authVars, reqVars, evalVars >>

\* the inner loop returning at the start of its window instead of going on to
\* an older one
StreakScanOneWindow ==
    /\ sk.pc = "scan"
    /\ LET c == sk.counts_map[sk.cursor]
           qualified == ScanQualified(c.scheduled, c.completed,
                                      rules.min_daily_tasks, rules.threshold_percent)
       IN IF ~qualified THEN sk' = Finished(sk)
          ELSE LET f == [ sk EXCEPT !.streak = sk.streak + 1, !.cursor = sk.cursor - 1 ]
               IN sk' = IF f.cursor >= f.window_start THEN f ELSE Finished(f)
    /\ UNCHANGED << storeVars, rules, maxDays, authVars, reqVars, evalVars >>

\* one pass of the inner loop: the date under the cursor qualifies or the scan returns
StreakScanDay ==
    /\ sk.pc = "scan"
    /\ LET c == sk.counts_map[sk.cursor]
           qualified == ScanQualified(c.scheduled, c.completed,
                                      rules.min_daily_tasks, rules.threshold_percent)
       IN IF ~qualified THEN sk' = Finished(sk)
          ELSE LET f == [ sk EXCEPT !.streak = sk.streak + 1, !.cursor = sk.cursor - 1 ]
               IN sk' = IF f.cursor >= f.window_start THEN f
                        ELSE IF f.cursor >= f.earliest THEN [ f EXCEPT !.pc = "window" ]
                        ELSE Finished(f)
    /\ UNCHANGED << storeVars, rules, maxDays, authVars, reqVars, evalVars >>

\* a Task row as Task(owner=...) leaves it before the payload is applied
MkTask(id, pattern, anchor, custom_days) ==
    [ id |-> id, scheduled_date |-> anchor,
      is_recurring |-> pattern # NoPattern, recurring_pattern |-> pattern,
      custom_days |-> custom_days,
      status |-> PENDING, completed_at |-> NULL,
      has_timer |-> FALSE, timer_duration_seconds |-> 0,
      timer_total_seconds |-> 0, timer_running_since |-> NULL,
      has_deadline |-> FALSE, deadline_time |-> NULL ]

StreakDays == 7
MaxWindow == 3

Today == StreakDays - 1

\* the owner's tasks: none, one daily task, a daily task and a one-off task, or a
\* task that starts tomorrow
StreakConfigs ==
    { << >>,
      << << DAILY, 0 >> >>,
      << << DAILY, 0 >>, << NoPattern, Today >> >>,
      << << DAILY, 1 >>, << NoPattern, Today - 1 >> >>,
      << << DAILY, Today + 1 >> >> }

StreakRules ==
    { [min_daily_tasks |-> 1, threshold_percent |-> 100],
      [min_daily_tasks |-> 2, threshold_percent |-> 50] }

SummaryRanges == { << 0, Today >>, << 0, Today - 1 >>, << Today, Today >>, << Today, Today - 1 >> }

\* the rows of a history in which the due pairs numbered in done were completed on
\* their own day (POST /tasks/{id}/complete?date=...)
RECURSIVE CompletedRows(_, _, _)
CompletedRows(due, done, j) ==
    IF j > Len(due) THEN << >>
    ELSE (IF j \in done
          THEN << [ task |-> due[j][1].id, date |-> due[j][2], status |-> COMPLETED,
                    completed_at |-> Combine(due[j][2], 0), timer_seconds |-> 0,
                    timer_running_since |-> NULL ] >>
          ELSE << >>) \o CompletedRows(due, done, j + 1)

InitStreak ==
    /\ now = Combine(Today, 0)
    /\ fin = NoResult
    /\ fout = NoResult
    /\ req = << >>
    /\ served = 0
    /\ sk = NoStreak
    /\ NoAccounts
    /\ rules \in StreakRules
    /\ maxDays \in (1..MaxWindow) \cup {DefaultMaxDays}
    /\ \E cfg \in StreakConfigs :
         LET base == [ i \in 1..Len(cfg) |-> MkTask(i, cfg[i][1], cfg[i][2], {}) ]
             due == DuePairs(base, 0, Today)
         IN \E done \in SUBSET (1..Len(due)) :
              LET isDone(i, d) == \E j \in done : due[j][1].id = i /\ due[j][2] = d
                  tbl == [ i \in 1..Len(cfg) |->
                             IF ~base[i].is_recurring /\ isDone(i, base[i].scheduled_date)
                             THEN [ base[i] EXCEPT !.status = COMPLETED,
                                        !.completed_at = Combine(base[i].scheduled_date, 0) ]
                             ELSE base[i] ]
                  anchors == [ i \in 1..Len(cfg) |-> << tbl[i], tbl[i].scheduled_date >> ]
                  db == BulkCreateIgnoreConflicts({}, 1,
                            CompletedRows(due, done, 1) \o BuildToCreate(anchors, {}))
              IN /\ tasks = tbl
                 /\ nextTaskId = Len(cfg) + 1
                 /\ occs = db.occs
                 /\ nextOccId = db.next

NextStreak ==
    \/ StreakToday
    \/ \E r \in SummaryRanges : StreakSummary(r[1], r[2])
    \/ StreakWindow
    \/ StreakScanDay

SpecStreak == InitStreak /\ [][NextStreak]_vars

\* the store with the owner's whole history [earliest, today] materialized
FullHistory ==
    ensure_occurrences_for_tasks(occs, nextOccId, TaskList(tasks),
                                 EarliestTaskDate(tasks), DateOf(now)).occs

QualifiesOn(S, d) ==
    Qualifies(CountsOn(S, d).scheduled, CountsOn(S, d).completed,
              rules.min_daily_tasks, rules.threshold_percent)

\* days D..D+4 qualify, D+5 does not, D+6 = today qualifies
Scenario(S, D) ==
    /\ \A i \in 0..4 : QualifiesOn(S, D + i)
    /\ ~QualifiesOn(S, D + 5)
    /\ QualifiesOn(S, D + 6)

LongestRun(days) ==
    LET runs == { j - i + 1 : i \in 1..Len(days), j \in 1..Len(days) }
        good == { n \in runs : \E i \in 1..Len(days) :
                     /\ i + n - 1 <= Len(days)
                     /\ \A k \in i..(i + n - 1) : days[k].qualified }
    IN IF good = {} THEN 0 ELSE CHOOSE n \in good : \A m \in good : m <= n

\* C8: bestStreak is the length of the longest run of consecutive qualifying
\* entries of the date-ordered list (0 when none qualifies or the list is empty);
\* 5 for D..D+4 qualifying, D+5 not, D+6 qualifying.
C8_BestStreakIsLongestRun ==
    (sk.pc = "done" /\ sk.op = "summary" /\ sk.code = "ok") =>
        /\ sk.best = LongestRun(sk.days)
        /\ (\A k \in 1..Len(sk.days) : ~sk.days[k].qualified) => sk.best = 0
        /\ ( /\ Len(sk.days) = 7
             /\ \A k \in 1..5 : sk.days[k].qualified
             /\ ~sk.days[6].qualified
             /\ sk.days[7].qualified ) => sk.best = 5

\* a summary over [D, D+6] of the scenario has been answered with bestStreak 5
C8_Witness ==
    /\ sk.pc = "done" /\ sk.op = "summary" /\ sk.code = "ok"
    /\ Len(sk.days) = 7
    /\ \A k \in 1..5 : sk.days[k].qualified
    /\ ~sk.days[6].qualified
    /\ sk.days[7].qualified
    /\ sk.best = 5
    /\ sk.streak = 1


(***************************************************************************)
(* Task templates: request payloads, Task.clean and Task.save              *)
(***************************************************************************)
\* TaskBaseIn with its defaults; fields_set is payload.model_fields_set
DefaultPayload ==
    [ fields_set |-> {},
      scheduledDate |-> 0,
      hasTimer |-> FALSE, timerDuration |-> 0, timerRemaining |-> NULL,
      timerStartedAt |-> NULL,
      hasDeadline |-> FALSE, deadlineTime |-> NULL,
      isRecurring |-> FALSE, recurringPattern |-> NoPattern, customDays |-> {},
      status |-> "none", completedAt |-> NULL ]

\* TaskBaseIn.validate_state: TRUE when the payload is accepted
validate_state(payload) ==
    /\ payload.status # "overdue"
    /\ ~(payload.hasDeadline /\ payload.deadlineTime = NULL)
    /\ ~(~payload.hasDeadline /\ payload.deadlineTime # NULL)
    /\ ~(payload.isRecurring /\ payload.recurringPattern = NoPattern)
    /\ ~(~payload.isRecurring /\ payload.recurringPattern # NoPattern)
    /\ ~( /\ payload.isRecurring
          /\ payload.recurringPattern = CUSTOM
          /\ \/ payload.customDays = {}
             \/ \E day \in payload.customDays : day < 0 \/ day > 6 )
    /\ ~(~payload.isRecurring /\ payload.customDays # {})

\* the assignments of _build_task_from_payload, one payload field each
Given(payload, field) == field \in payload.fields_set

BuildScheduledDate(task, payload) ==
    IF Given(payload, "scheduledDate")
    THEN [ task EXCEPT !.scheduled_date = payload.scheduledDate ] ELSE task

BuildHasTimer(task, payload) ==
    IF ~Given(payload, "hasTimer") THEN task
    ELSE IF payload.hasTimer THEN [ task EXCEPT !.has_timer = TRUE ]
    ELSE [ task EXCEPT !.has_timer = FALSE, !.timer_running_since = NULL,
                       !.timer_duration_seconds = 0, !.timer_total_seconds = 0 ]

BuildTimerDuration(task, payload) ==
    IF Given(payload, "timerDuration")
    THEN [ task EXCEPT !.timer_duration_seconds = Max(0, payload.timerDuration) ]
    ELSE task

BuildTimerRemaining(task, payload) ==
    IF Given(payload, "timerRemaining")
    THEN [ task EXCEPT !.timer_total_seconds =
               Max(0, task.timer_duration_seconds
                      - (IF payload.timerRemaining = NULL THEN 0
                         ELSE Max(0, payload.timerRemaining))) ]
    ELSE task

BuildTimerStartedAt(task, payload) ==
    IF Given(payload, "timerStartedAt")
    THEN [ task EXCEPT !.timer_running_since = payload.timerStartedAt ] ELSE task

BuildHasDeadline(task, payload) ==
    IF ~Given(payload, "hasDeadline") THEN task
    ELSE IF payload.hasDeadline THEN [ task EXCEPT !.has_deadline = TRUE ]
    ELSE [ task EXCEPT !.has_deadline = FALSE, !.deadline_time = NULL ]

BuildDeadlineTime(task, payload) ==
    IF Given(payload, "deadlineTime")
    THEN [ task EXCEPT !.deadline_time = payload.deadlineTime ] ELSE task

BuildIsRecurring(task, payload) ==
    IF ~Given(payload, "isRecurring") THEN task
    ELSE IF payload.isRecurring THEN [ task EXCEPT !.is_recurring = TRUE ]
    ELSE [ task EXCEPT !.is_recurring = FALSE, !.recurring_pattern = NoPattern,
                       !.custom_days = {} ]

BuildRecurringPattern(task, payload) ==
    IF Given(payload, "recurringPattern")
    THEN [ task EXCEPT !.recurring_pattern = payload.recurringPattern ] ELSE task

BuildCustomDays(task, payload) ==
    IF Given(payload, "customDays")
    THEN [ task EXCEPT !.custom_days = payload.customDays ] ELSE task

BuildStatus(task, payload) ==
    IF Given(payload, "status") /\ payload.status # "none"
    THEN [ task EXCEPT !.status = IF payload.status = "completed"
                                  THEN COMPLETED ELSE PENDING ]
    ELSE task

BuildCompletedAt(task, payload) ==
    IF Given(payload, "completedAt")
    THEN [ task EXCEPT !.completed_at = payload.completedAt ] ELSE task

_build_task_from_payload(task, payload) ==
    BuildCompletedAt(BuildStatus(BuildCustomDays(BuildRecurringPattern(
    BuildIsRecurring(BuildDeadlineTime(BuildHasDeadline(BuildTimerStartedAt(
    BuildTimerRemaining(BuildTimerDuration(BuildHasTimer(BuildScheduledDate(
        task, payload), payload), payload), payload), payload), payload), payload),
        payload), payload), payload), payload), payload)

\* Task.clean: TRUE when no ValidationError is raised
clean(task) ==
    /\ ~(task.status = COMPLETED /\ task.completed_at = NULL)
    /\ ~(task.status # COMPLETED /\ task.completed_at # NULL)
    /\ ~(task.has_deadline /\ task.deadline_time = NULL)
    /\ ~(~task.has_deadline /\ task.deadline_time # NULL)
    /\ IF task.is_recurring
       THEN /\ task.recurring_pattern # NoPattern
            /\ task.recurring_pattern = CUSTOM =>
                   \A day \in task.custom_days : day >= 0 /\ day <= 6
       ELSE /\ task.recurring_pattern = NoPattern
            /\ task.custom_days = {}

\* a save that resets the completion of a recurring template but not its timer
SaveRecurringKeepsTimer(task) ==
    IF task.is_recurring
    THEN [ task EXCEPT !.status = PENDING, !.completed_at = NULL ]
    ELSE task

\* Task.save up to full_clean: a recurring template carries no state of its own
SaveRecurring(task) ==
    IF task.is_recurring
    THEN [ task EXCEPT !.status = PENDING, !.completed_at = NULL,
                       !.timer_total_seconds = 0, !.timer_running_since = NULL ]
    ELSE task

SaveCompletedAt(task, now_utc) ==
    IF task.status # COMPLETED THEN [ task EXCEPT !.completed_at = NULL ]
    ELSE IF task.completed_at = NULL THEN [ task EXCEPT !.completed_at = now_utc ]
    ELSE task

\* the instance as Task.save leaves it just before full_clean
save(task, now_utc) == SaveCompletedAt(SaveRecurring(task), now_utc)

(***************************************************************************)
(* Task endpoints (apps/tasks/api.py), one database statement at a time.   *)
(* A frame is the position and the local variables of one request; db is   *)
(* the committed content of the two tables (there is no enclosing          *)
(* transaction: every statement commits on its own).                       *)
(***************************************************************************)
NoTask == MkTask(0, NoPattern, 0, {})

\* TaskOccurrence(task, date) with the column defaults
NewOccurrence(task_id, occurrence_date) ==
    [ task |-> task_id, date |-> occurrence_date, status |-> PENDING,
      completed_at |-> NULL, timer_seconds |-> 0, timer_running_since |-> NULL ]

NoOccurrence == WithId(NewOccurrence(0, 0), 0)

NoFrame ==
    [ pc |-> "idle", op |-> "none", code |-> "none",
      task |-> NoTask, task_list |-> << >>,
      range_start |-> 0, range_end |-> 0,
      existing_pairs |-> {}, after |-> "none",
      occurrence |-> NoOccurrence, payload |-> DefaultPayload,
      previous_scheduled_date |-> 0, previous_is_recurring |-> FALSE,
      created |-> 0, absorbed |-> 0 ]

Database == [ tasks |-> tasks, nextTaskId |-> nextTaskId,
              occs |-> occs, nextOccId |-> nextOccId ]

Ret(db, frame) == [ db |-> db, f |-> frame ]

\* the handler returns or raises: its locals go out of scope
Done(frame, code) ==
    [ frame EXCEPT !.pc = "done", !.code = code, !.existing_pairs = {},
                   !.after = "none", !.payload = DefaultPayload,
                   !.previous_scheduled_date = 0, !.previous_is_recurring = FALSE ]

\* UPDATE ... WHERE id = occurrence.id of the columns in update_fields
OccurrenceSaved(S, occurrence, update_fields) ==
    { IF x.id = occurrence.id
      THEN [ k \in DOMAIN x |-> IF k \in update_fields THEN occurrence[k] ELSE x[k] ]
      ELSE x : x \in S }

\* Model.save() of a Task with a primary key: UPDATE, and INSERT when no row matched
TaskSaved(tbl, task) ==
    [ i \in DOMAIN tbl \cup {task.id} |-> IF i = task.id THEN task ELSE tbl[i] ]

\* .filter(task=task, date=target_date).first() under Meta.ordering ["date", "id"]
FirstOccurrence(S, task_id, target_date) ==
    LET found == { x \in S : x.task = task_id /\ x.date = target_date }
    IN IF found = {} THEN NoOccurrence
       ELSE CHOOSE x \in found : \A y \in found : x.id <= y.id

\* what follows ensure_occurrence_for_task_date in each handler
AfterSingle(frame) ==
    CASE frame.op = "create" ->
             IF ~frame.task.is_recurring /\ frame.task.status = COMPLETED
             THEN "create_occurrence_save" ELSE "done"
      [] frame.op = "patch" ->
             IF frame.task.is_recurring THEN "done" ELSE "patch_occurrence_save"
      [] frame.op = "complete" -> "complete_save"
      [] frame.op = "start_timer" -> "start_occurrence_save"
      [] frame.op = "stop_timer" -> "stop_occurrence_save"
      [] OTHER -> "done"

Continue(frame, pc) ==
    IF pc = "done" THEN Done(frame, "ok") ELSE [ frame EXCEPT !.pc = pc ]

\* call of ensure_occurrence_for_task_date(task, target_date)
CallEnsureSingle(frame, task, target_date) ==
    [ frame EXCEPT !.pc = "ensure_read", !.after = "first",
                   !.task = task, !.task_list = << task >>,
                   !.range_start = target_date, !.range_end = target_date ]

\* ensure_occurrences_for_tasks up to the existing_pairs query and the to_create loop
EnsureReadStep(db, frame) ==
    IF frame.task_list = << >> \/ frame.range_start > frame.range_end
    THEN Ret(db, [ frame EXCEPT !.pc = frame.after ])
    ELSE LET existing_pairs == ExistingPairs(db.occs, TaskIdsOf(frame.task_list),
                                             frame.range_start, frame.range_end)
             to_create == ToCreate(frame.task_list, existing_pairs,
                                   frame.range_start, frame.range_end)
         IN IF to_create = << >>
            THEN Ret(db, [ frame EXCEPT !.pc = frame.after ])
            ELSE Ret(db, [ frame EXCEPT !.pc = "ensure_bulk",
                                        !.existing_pairs = existing_pairs ])

\* a bulk insert without ignore_conflicts: the first conflict raises
EnsureBulkStrict(db, frame) ==
    LET to_create == ToCreate(frame.task_list, frame.existing_pairs,
                              frame.range_start, frame.range_end)
    IN IF \E i \in 1..Len(to_create) :
              \/ to_create[i].task \notin DOMAIN db.tasks
              \/ Conflicts(db.occs, to_create[i])
       THEN Ret(db, Done(frame, "integrity_error"))
       ELSE LET r == BulkCreateIgnoreConflicts(db.occs, db.nextOccId, to_create)
            IN Ret([ db EXCEPT !.occs = r.occs, !.nextOccId = r.next ],
                   [ frame EXCEPT !.pc = frame.after, !.existing_pairs = {},
                                  !.created = frame.created + Len(to_create) ])

\* bulk_create(to_create, ignore_conflicts=True); the foreign key is still checked
EnsureBulkStep(db, frame) ==
    LET to_create == ToCreate(frame.task_list, frame.existing_pairs,
                              frame.range_start, frame.range_end)
    IN IF \E i \in 1..Len(to_create) : to_create[i].task \notin DOMAIN db.tasks
       THEN Ret(db, Done(frame, "integrity_error"))
       ELSE LET r == BulkCreateIgnoreConflicts(db.occs, db.nextOccId, to_create)
                inserted == r.next - db.nextOccId
            IN Ret([ db EXCEPT !.occs = r.occs, !.nextOccId = r.next ],
                   [ frame EXCEPT !.pc = frame.after, !.existing_pairs = {},
                                  !.created = frame.created + inserted,
                                  !.absorbed = frame.absorbed
                                               + (Len(to_create) - inserted) ])

\* the final query of _list_occurrence_items
ListReadStep(db, frame) == Ret(db, Done(frame, "ok"))

\* ensure_occurrence_for_task_date after the materializer: .first()
FirstStep(db, frame) ==
    LET occurrence == FirstOccurrence(db.occs, frame.task.id, frame.range_start)
    IN IF occurrence.id # 0
       THEN Ret(db, Continue([ frame EXCEPT !.occurrence = occurrence ],
                             AfterSingle(frame)))
       ELSE Ret(db, [ frame EXCEPT !.pc = "create" ])

\* the fallback TaskOccurrence.objects.create(task=task, date=target_date): a plain
\* INSERT, which raises IntegrityError when the pair or the task row stands against it
CreateStep(db, frame) ==
    LET row == NewOccurrence(frame.task.id, frame.range_start)
    IN IF frame.task.id \notin DOMAIN db.tasks \/ Conflicts(db.occs, row)
       THEN Ret(db, Done(frame, "integrity_error"))
       ELSE LET occurrence == WithId(row, db.nextOccId)
            IN Ret([ db EXCEPT !.occs = db.occs \cup {occurrence},
                               !.nextOccId = db.nextOccId + 1 ],
                   Continue([ frame EXCEPT !.occurrence = occurrence,
                                           !.created = frame.created + 1 ],
                            AfterSingle(frame)))


\* _get_owned_task: the frame after the query, "not_found" when it is empty
Loaded(db, op, task_id) ==
    IF task_id \in DOMAIN db.tasks
    THEN [ NoFrame EXCEPT !.pc = "loaded", !.op = op, !.task = db.tasks[task_id] ]
    ELSE Done([ NoFrame EXCEPT !.op = op ], "not_found")

\* _resolve_target_date without the test of the rule
ResolveAnyDate(task, target_date) ==
    IF task.is_recurring /\ target_date = NULL
    THEN [ code |-> "occurrence_date_required", date |-> 0 ]
    ELSE [ code |-> "ok",
           date |-> IF target_date = NULL THEN task.scheduled_date ELSE target_date ]

\* _resolve_target_date: the resolved date, or the code of the APIError
ResolveTargetDate(task, target_date) ==
    IF task.is_recurring /\ target_date = NULL
    THEN [ code |-> "occurrence_date_required", date |-> 0 ]
    ELSE LET resolved == IF target_date = NULL THEN task.scheduled_date ELSE target_date
         IN IF ~task_occurs_on_date(task, resolved)
            THEN [ code |-> "validation_error", date |-> 0 ]
            ELSE [ code |-> "ok", date |-> resolved ]

\* the common head of the occurrence endpoints: load the task, resolve the date
LoadedAndResolved(db, op, task_id, date_value) ==
    LET frame == Loaded(db, op, task_id)
    IN IF frame.pc = "done" THEN frame
       ELSE LET target == ResolveTargetDate(frame.task, date_value)
            IN IF target.code # "ok" THEN Done(frame, target.code)
               ELSE CallEnsureSingle(frame, frame.task, target.date)

\* list_tasks rejecting a span of exactly the maximum
ListRejectsFullSpan(db, start, end, max_range_days) ==
    LET frame == [ NoFrame EXCEPT !.op = "list", !.range_start = start, !.range_end = end ]
        task_list == TaskListByDate(db.tasks)
    IN IF start > end THEN Done(frame, "validation_error")
       ELSE IF (end - start) + 1 >= Max(1, max_range_days) THEN Done(frame, "range_too_large")
       ELSE IF task_list = << >> THEN Done(frame, "ok")
       ELSE [ frame EXCEPT !.pc = "ensure_read", !.after = "list_read",
                           !.task_list = task_list ]

\* GET /tasks?start&end up to the call of the materializer
list_tasks(db, start, end, max_range_days) ==
    LET frame == [ NoFrame EXCEPT !.op = "list", !.range_start = start, !.range_end = end ]
        max_days == Max(1, max_range_days)
        task_list == TaskListByDate(db.tasks)
    IN IF start > end THEN Done(frame, "validation_error")
       ELSE IF (end - start) + 1 > max_days THEN Done(frame, "range_too_large")
       ELSE IF task_list = << >> THEN Done(frame, "ok")
       ELSE [ frame EXCEPT !.pc = "ensure_read", !.after = "list_read",
                           !.task_list = task_list ]

\* GET /tasks/{task_id}: the anchor date is materialized without the rule test
get_task(db, task_id) ==
    LET frame == Loaded(db, "get", task_id)
    IN IF frame.pc = "done" THEN frame
       ELSE CallEnsureSingle(frame, frame.task, frame.task.scheduled_date)

\* GET /tasks/occurrence?task_id&date
get_task_occurrence(db, task_id, occurrence_date) ==
    LoadedAndResolved(db, "get_occurrence", task_id, occurrence_date)

\* POST /tasks/{task_id}/complete?date
complete_task(db, task_id, date_value) ==
    LoadedAndResolved(db, "complete", task_id, date_value)

\* POST /tasks/{task_id}/stop-timer?date
stop_timer(db, task_id, date_value) ==
    LoadedAndResolved(db, "stop_timer", task_id, date_value)

\* POST /tasks/{task_id}/start-timer?date up to the first write
start_timer(db, task_id, date_value) ==
    LET frame == LoadedAndResolved(db, "start_timer", task_id, date_value)
    IN IF frame.pc = "done" \/ frame.task.has_timer THEN frame
       ELSE [ frame EXCEPT !.pc = "timer_flag_save", !.task.has_timer = TRUE ]

\* DELETE /tasks/{task_id} up to task.delete()
delete_task(db, task_id) ==
    LET frame == Loaded(db, "delete", task_id)
    IN IF frame.pc = "done" THEN frame ELSE [ frame EXCEPT !.pc = "delete" ]

\* PATCH /tasks/{task_id} up to task.save()
patch_task(db, task_id, payload) ==
    LET frame == Loaded(db, "patch", task_id)
    IN IF ~validate_state(payload)
       THEN Done([ NoFrame EXCEPT !.op = "patch" ], "validation_error")
       ELSE IF frame.pc = "done" THEN frame
       ELSE [ frame EXCEPT !.pc = "patch_save", !.payload = payload,
                           !.previous_scheduled_date = frame.task.scheduled_date,
                           !.previous_is_recurring = frame.task.is_recurring,
                           !.task = _build_task_from_payload(frame.task, payload) ]

\* POST /tasks up to task.save()
create_task(db, payload) ==
    LET frame == [ NoFrame EXCEPT !.op = "create" ]
        built == _build_task_from_payload(NoTask, payload)
        task == IF /\ built.has_timer
                   /\ built.timer_duration_seconds > 0
                   /\ payload.timerRemaining = NULL
                THEN [ built EXCEPT !.timer_total_seconds = 0 ] ELSE built
    IN IF ~validate_state(payload) \/ "scheduledDate" \notin payload.fields_set
       THEN Done(frame, "validation_error")
       ELSE [ frame EXCEPT !.pc = "create_save", !.payload = payload, !.task = task ]


\* occurrence.save(update_fields=...): DatabaseError when the row is gone
OccurrenceSaveStep(db, frame, occurrence, update_fields, next_pc) ==
    IF \E x \in db.occs : x.id = occurrence.id
    THEN Ret([ db EXCEPT !.occs = OccurrenceSaved(db.occs, occurrence, update_fields) ],
             Continue([ frame EXCEPT !.occurrence = occurrence ], next_pc))
    ELSE Ret(db, Done(frame, "database_error"))

\* task.save() of a loaded task, full_clean included
TaskSaveStep(db, frame, saved, next_frame) ==
    IF ~clean(saved) THEN Ret(db, Done(frame, "validation_error"))
    ELSE Ret([ db EXCEPT !.tasks = TaskSaved(db.tasks, saved) ], next_frame)

\* create_task: task.save() inserts the row under a fresh id
CreateSaveStep(db, frame, now_utc) ==
    LET saved == [ save(frame.task, now_utc) EXCEPT !.id = db.nextTaskId ]
    IN IF ~clean(saved) THEN Ret(db, Done(frame, "validation_error"))
       ELSE Ret([ db EXCEPT !.tasks = TaskSaved(db.tasks, saved),
                            !.nextTaskId = db.nextTaskId + 1 ],
                CallEnsureSingle(frame, saved, saved.scheduled_date))

\* a copy that leaves the completion timestamp of the occurrence as it was
FromTemplateKeepsCompletedAt(occurrence, task, status) ==
    [ occurrence EXCEPT !.status = status,
                        !.timer_seconds = task.timer_total_seconds,
                        !.timer_running_since = task.timer_running_since ]

\* the occurrence takes the completion and timer fields of its one-off template
FromTemplate(occurrence, task, status) ==
    [ occurrence EXCEPT !.status = status,
                        !.completed_at = task.completed_at,
                        !.timer_seconds = task.timer_total_seconds,
                        !.timer_running_since = task.timer_running_since ]

StateFields == { "status", "completed_at", "timer_seconds", "timer_running_since" }

CreateOccurrenceSaveStep(db, frame) ==
    OccurrenceSaveStep(db, frame, FromTemplate(frame.occurrence, frame.task, COMPLETED),
                       StateFields, "done")

\* the payload fields that make patch_task purge the pending occurrences
PurgeFields ==
    { "scheduledDate", "recurringPattern", "customDays", "isRecurring",
      "hasDeadline", "deadlineTime" }

PatchSaveStep(db, frame, now_utc) ==
    LET saved == save(frame.task, now_utc)
        next_frame ==
            IF /\ saved.is_recurring
               /\ frame.previous_is_recurring
               /\ frame.payload.fields_set \cap PurgeFields # {}
            THEN [ frame EXCEPT !.pc = "patch_purge", !.task = saved ]
            ELSE CallEnsureSingle(frame, saved, saved.scheduled_date)
    IN TaskSaveStep(db, frame, saved, next_frame)

PatchPurgeStep(db, frame) ==
    LET from_date == Min(frame.previous_scheduled_date, frame.task.scheduled_date)
        purged == { x \in db.occs : /\ x.task = frame.task.id
                                    /\ x.status = PENDING
                                    /\ x.date >= from_date }
    IN Ret([ db EXCEPT !.occs = db.occs \ purged ],
           CallEnsureSingle(frame, frame.task, frame.task.scheduled_date))

PatchOccurrenceSaveStep(db, frame) ==
    OccurrenceSaveStep(db, frame,
                       FromTemplate(frame.occurrence, frame.task,
                                    IF frame.task.status = COMPLETED
                                    THEN COMPLETED ELSE PENDING),
                       StateFields, "patch_delete_others")

PatchDeleteOthersStep(db, frame) ==
    LET others == { x \in db.occs : /\ x.task = frame.task.id
                                    /\ x.date # frame.task.scheduled_date }
    IN Ret([ db EXCEPT !.occs = db.occs \ others ], Done(frame, "ok"))

\* task.delete(): the occurrences go with the task (on_delete=CASCADE)
DeleteStep(db, frame) ==
    Ret([ db EXCEPT !.tasks = [ i \in DOMAIN db.tasks \ {frame.task.id} |-> db.tasks[i] ],
                    !.occs = { x \in db.occs : x.task # frame.task.id } ],
        Done(frame, "no_content"))

CompleteSaveStep(db, frame, now_utc) ==
    LET occ0 == frame.occurrence
        occ1 == IF occ0.timer_running_since # NULL
                THEN [ occ0 EXCEPT !.timer_seconds =
                                       occurrence_elapsed_seconds(frame.task, occ0, now_utc),
                                   !.timer_running_since = NULL ]
                ELSE occ0
        occ2 == [ occ1 EXCEPT !.status = COMPLETED, !.completed_at = now_utc ]
    IN OccurrenceSaveStep(db, frame, occ2, StateFields,
                          IF frame.task.is_recurring THEN "done" ELSE "sync_template")

\* a sync that leaves the accumulated seconds of the template behind
SyncTemplateWithoutSeconds(db, frame, now_utc) ==
    LET occurrence == frame.occurrence
        task == [ frame.task EXCEPT
                    !.status = IF occurrence.status = COMPLETED THEN COMPLETED ELSE PENDING,
                    !.completed_at = occurrence.completed_at,
                    !.timer_running_since = occurrence.timer_running_since ]
        saved == save(task, now_utc)
    IN TaskSaveStep(db, frame, saved, Done([ frame EXCEPT !.task = saved ], "ok"))

\* _sync_non_recurring_template
SyncTemplateStep(db, frame, now_utc) ==
    LET occurrence == frame.occurrence
        task == [ frame.task EXCEPT
                    !.status = IF occurrence.status = COMPLETED THEN COMPLETED ELSE PENDING,
                    !.completed_at = occurrence.completed_at,
                    !.timer_total_seconds = occurrence.timer_seconds,
                    !.timer_running_since = occurrence.timer_running_since ]
        saved == save(task, now_utc)
    IN TaskSaveStep(db, frame, saved, Done([ frame EXCEPT !.task = saved ], "ok"))

\* start_timer: task.save(update_fields=["has_timer"])
TimerFlagSaveStep(db, frame, now_utc) ==
    LET saved == save(frame.task, now_utc)
    IN IF ~clean(saved) THEN Ret(db, Done(frame, "validation_error"))
       ELSE IF saved.id \notin DOMAIN db.tasks THEN Ret(db, Done(frame, "database_error"))
       ELSE Ret([ db EXCEPT !.tasks[saved.id].has_timer = TRUE ],
                [ frame EXCEPT !.pc = "ensure_read", !.task = saved,
                               !.task_list = << saved >> ])

\* a start that begins a new session even when one is running
StartRestartsSession(db, frame, now_utc) ==
    LET next_pc == IF frame.task.is_recurring THEN "done" ELSE "start_sync"
    IN IF frame.occurrence.status # COMPLETED
       THEN OccurrenceSaveStep(db, frame,
                               [ frame.occurrence EXCEPT !.timer_running_since = now_utc ],
                               { "timer_running_since" }, next_pc)
       ELSE Ret(db, Continue(frame, next_pc))

StartOccurrenceSaveStep(db, frame, now_utc) ==
    LET next_pc == IF frame.task.is_recurring THEN "done" ELSE "start_sync"
    IN IF frame.occurrence.status # COMPLETED /\ frame.occurrence.timer_running_since = NULL
       THEN OccurrenceSaveStep(db, frame,
                               [ frame.occurrence EXCEPT !.timer_running_since = now_utc ],
                               { "timer_running_since" }, next_pc)
       ELSE Ret(db, Continue(frame, next_pc))

StartSyncStep(db, frame, now_utc) ==
    LET task == [ frame.task EXCEPT
                    !.timer_running_since = frame.occurrence.timer_running_since,
                    !.timer_total_seconds = frame.occurrence.timer_seconds ]
        saved == save(task, now_utc)
    IN TaskSaveStep(db, frame, saved, Done([ frame EXCEPT !.task = saved ], "ok"))

\* a plausible slip: the running session is dropped instead of added on stop
StopForgetsSession(db, frame, now_utc) ==
    LET next_pc == IF frame.task.is_recurring THEN "done" ELSE "sync_template"
    IN IF frame.occurrence.timer_running_since # NULL
       THEN OccurrenceSaveStep(db, frame,
                               [ frame.occurrence EXCEPT !.timer_running_since = NULL ],
                               { "timer_seconds", "timer_running_since" }, next_pc)
       ELSE Ret(db, Continue(frame, next_pc))

StopOccurrenceSaveStep(db, frame, now_utc) ==
    LET next_pc == IF frame.task.is_recurring THEN "done" ELSE "sync_template"
        occ0 == frame.occurrence
    IN IF occ0.timer_running_since # NULL
       THEN OccurrenceSaveStep(db, frame,
                [ occ0 EXCEPT !.timer_seconds =
                                  occurrence_elapsed_seconds(frame.task, occ0, now_utc),
                              !.timer_running_since = NULL ],
                { "timer_seconds", "timer_running_since" }, next_pc)
       ELSE Ret(db, Continue(frame, next_pc))

\* the next statement of a request
Step(db, frame, now_utc) ==
    CASE frame.pc = "ensure_read" -> EnsureReadStep(db, frame)
      [] frame.pc = "ensure_bulk" -> EnsureBulkStep(db, frame)
      [] frame.pc = "list_read" -> ListReadStep(db, frame)
      [] frame.pc = "first" -> FirstStep(db, frame)
      [] frame.pc = "create" -> CreateStep(db, frame)
      [] frame.pc = "create_save" -> CreateSaveStep(db, frame, now_utc)
      [] frame.pc = "create_occurrence_save" -> CreateOccurrenceSaveStep(db, frame)
      [] frame.pc = "patch_save" -> PatchSaveStep(db, frame, now_utc)
      [] frame.pc = "patch_purge" -> PatchPurgeStep(db, frame)
      [] frame.pc = "patch_occurrence_save" -> PatchOccurrenceSaveStep(db, frame)
      [] frame.pc = "patch_delete_others" -> PatchDeleteOthersStep(db, frame)
      [] frame.pc = "delete" -> DeleteStep(db, frame)
      [] frame.pc = "complete_save" -> CompleteSaveStep(db, frame, now_utc)
      [] frame.pc = "sync_template" -> SyncTemplateStep(db, frame, now_utc)
      [] frame.pc = "timer_flag_save" -> TimerFlagSaveStep(db, frame, now_utc)
      [] frame.pc = "start_occurrence_save" -> StartOccurrenceSaveStep(db, frame, now_utc)
      [] frame.pc = "start_sync" -> StartSyncStep(db, frame, now_utc)
      [] frame.pc = "stop_occurrence_save" -> StopOccurrenceSaveStep(db, frame, now_utc)
      [] OTHER -> Ret(db, frame)

\* a request served without interleaving: its statements run to the response
RECURSIVE Run(_, _, _)
RunOn(r, now_utc) == Run(r.db, r.f, now_utc)

Run(db, frame, now_utc) ==
    IF frame.pc = "done" THEN Ret(db, frame)
    ELSE RunOn(Step(db, frame, now_utc), now_utc)


(***************************************************************************)
(* Requests as actions.  Served one at a time, a request is one action     *)
(* that runs the handler to its response; served concurrently, every       *)
(* statement of every request is an action of its own.                     *)
(***************************************************************************)
\* the store after a statement or after a whole handler
Commit(db) ==
    /\ tasks' = db.tasks
    /\ nextTaskId' = db.nextTaskId
    /\ occs' = db.occs
    /\ nextOccId' = db.nextOccId

\* counters of the two tables stay within the explored ids
Within(db, max_tasks, max_occurrences) ==
    /\ db.nextTaskId <= max_tasks + 1
    /\ db.nextOccId <= max_occurrences + 1

\* the request is served alone, from its first statement to its response
Respond(db, max_tasks, max_occurrences) ==
    /\ Within(db, max_tasks, max_occurrences)
    /\ Commit(db)
    /\ UNCHANGED << now, streakVars, authVars, req, served, evalVars >>

Serve(frame, max_tasks, max_occurrences) ==
    Respond(Run(Database, frame, now).db, max_tasks, max_occurrences)

\* payloads of POST /tasks and PATCH /tasks/{task_id}
OneOffPayload(d) ==
    [ DefaultPayload EXCEPT !.fields_set = { "scheduledDate" }, !.scheduledDate = d ]

CompletedPayload(d) ==
    [ DefaultPayload EXCEPT !.fields_set = { "scheduledDate", "status" },
                            !.scheduledDate = d, !.status = "completed" ]

RecurringPayload(d, pattern, custom_days) ==
    [ DefaultPayload EXCEPT
        !.fields_set = { "scheduledDate", "isRecurring", "recurringPattern", "customDays" },
        !.scheduledDate = d, !.isRecurring = TRUE,
        !.recurringPattern = pattern, !.customDays = custom_days ]

ReschedulePayload(d) == OneOffPayload(d)

RulePayload(pattern, custom_days) ==
    [ DefaultPayload EXCEPT
        !.fields_set = { "isRecurring", "recurringPattern", "customDays" },
        !.isRecurring = TRUE, !.recurringPattern = pattern, !.customDays = custom_days ]

StopRecurringPayload ==
    [ DefaultPayload EXCEPT !.fields_set = { "isRecurring" } ]


(***************************************************************************)
(* Concurrent materialization: two workers serve POST /tasks, GET /tasks   *)
(* with a range, GET /tasks/{id} and GET /tasks/occurrence, statement by   *)
(* statement, against one store.                                           *)
(***************************************************************************)
Procs == { "a", "b" }

\* the dates the requests name: 2024-01-01 (a Monday) and the days after it
RaceLastDate == 2
RaceDates == 0..RaceLastDate

\* rows of the two tables the workers may create
RaceTasks == 1
RaceRows == 3

\* requests the two workers accept in one behaviour
RaceRequests == 3

\* what is left of a frame once its response is sent and nobody looks at it again
Sent(frame) ==
    IF frame.pc # "done" THEN frame
    ELSE [ NoFrame EXCEPT !.pc = "done", !.op = frame.op, !.code = frame.code,
                          !.absorbed = frame.absorbed ]

\* a worker is free, and the explored number of requests is not exhausted
Free(p) == req[p].pc \in { "idle", "done" } /\ served < RaceRequests

\* a worker picks up a request: the handler runs up to its first write or to the
\* materializer, reading the task it needs
Accept(p, frame, keep_response) ==
    /\ req' = [ req EXCEPT ![p] = IF keep_response THEN frame ELSE Sent(frame) ]
    /\ served' = served + 1
    /\ UNCHANGED << storeVars, streakVars, authVars, evalVars >>

\* the worker executes the statement its request stands at
At(p, pc) == req[p].pc = pc

Execute(p, r, keep_response) ==
    /\ Within(r.db, RaceTasks, RaceRows)
    /\ Commit(r.db)
    /\ req' = [ req EXCEPT ![p] = IF keep_response THEN r.f ELSE Sent(r.f) ]
    /\ UNCHANGED << now, streakVars, authVars, served, evalVars >>

\* the frontend weekday index of a Tuesday
Tuesday == 2

\* a one-off task, pending or completed, a daily task, and a weekday-set task whose
\* anchor (a Monday) is not in its set
RaceCreatePayloads ==
    { OneOffPayload(0), CompletedPayload(0), RecurringPayload(0, DAILY, {}),
      RecurringPayload(0, CUSTOM, { Tuesday }) }

\* the stores the workers start from: empty, or what POST /tasks and then
\* GET /tasks?start&end leave when served alone
Blank == [ tasks |-> NoTasks, nextTaskId |-> 1, occs |-> {}, nextOccId |-> 1 ]

Created(payload) == Run(Blank, create_task(Blank, payload), 0).db

Listed(db, start, end) == Run(db, list_tasks(db, start, end, DefaultMaxDays), 0).db

RaceStores ==
    {Blank} \cup { Created(payload) : payload \in RaceCreatePayloads }
            \cup { Listed(Created(payload), 0, 1) : payload \in RaceCreatePayloads }

\* the workers start on one of the stores of the set
InitWorkers(stores) ==
    /\ \E db \in stores :
          /\ tasks = db.tasks
          /\ nextTaskId = db.nextTaskId
          /\ occs = db.occs
          /\ nextOccId = db.nextOccId
    /\ now = 0
    /\ rules = DefaultRules
    /\ maxDays = DefaultMaxDays
    /\ sk = NoStreak
    /\ NoAccounts
    /\ fin = NoResult
    /\ fout = NoResult
    /\ req = [ p \in Procs |-> NoFrame ]
    /\ served = 0

InitMaterialize == InitWorkers(RaceStores)

CreateTaskArrives(p, payload, keep) ==
    /\ Free(p)
    /\ nextTaskId <= RaceTasks
    /\ Accept(p, create_task(Database, payload), keep)

ListTasksArrives(p, start, end, keep) ==
    /\ Free(p)
    /\ Accept(p, list_tasks(Database, start, end, maxDays), keep)

GetTaskArrives(p, task_id, keep) ==
    /\ Free(p)
    /\ Accept(p, get_task(Database, task_id), keep)

GetTaskOccurrenceArrives(p, task_id, occurrence_date, keep) ==
    /\ Free(p)
    /\ Accept(p, get_task_occurrence(Database, task_id, occurrence_date), keep)

CreateSave(p, keep) ==
    /\ At(p, "create_save")
    /\ Execute(p, CreateSaveStep(Database, req[p], now), keep)

CreateOccurrenceSave(p, keep) ==
    /\ At(p, "create_occurrence_save")
    /\ Execute(p, CreateOccurrenceSaveStep(Database, req[p]), keep)

EnsureRead(p, keep) ==
    /\ At(p, "ensure_read")
    /\ Execute(p, EnsureReadStep(Database, req[p]), keep)

EnsureBulk(p, keep) ==
    /\ At(p, "ensure_bulk")
    /\ Execute(p, EnsureBulkStep(Database, req[p]), keep)

ListRead(p, keep) ==
    /\ At(p, "list_read")
    /\ Execute(p, ListReadStep(Database, req[p]), keep)

First(p, keep) ==
    /\ At(p, "first")
    /\ Execute(p, FirstStep(Database, req[p]), keep)

Create(p, keep) ==
    /\ At(p, "create")
    /\ Execute(p, CreateStep(Database, req[p]), keep)

NextMaterialize ==
    \E p \in Procs :
        \/ \E payload \in RaceCreatePayloads : CreateTaskArrives(p, payload, TRUE)
        \/ \E start \in RaceDates, end \in RaceDates : ListTasksArrives(p, start, end, TRUE)
        \/ \E task_id \in 1..RaceTasks : GetTaskArrives(p, task_id, TRUE)
        \/ \E task_id \in 1..RaceTasks, d \in RaceDates :
               GetTaskOccurrenceArrives(p, task_id, d, TRUE)
        \/ CreateSave(p, TRUE)
        \/ CreateOccurrenceSave(p, TRUE)
        \/ EnsureRead(p, TRUE)
        \/ EnsureBulk(p, TRUE)
        \/ ListRead(p, TRUE)
        \/ First(p, TRUE)
        \/ Create(p, TRUE)

SpecMaterialize == InitMaterialize /\ [][NextMaterialize]_vars

RowsOf(task_id, d) == { x \in occs : x.task = task_id /\ x.date = d }

DueDatesOf(task, start, end) ==
    LET dates == occurrence_dates_for_task(task, start, end)
    IN { dates[i] : i \in 1..Len(dates) }

\* a range materialization that has returned
ListReturned(frame) ==
    frame.op = "list" /\ frame.pc = "done" /\ frame.range_start <= frame.range_end

\* two range materializations with overlapping windows that share a task
Overlapping(f, g) ==
    /\ ListReturned(f) /\ ListReturned(g)
    /\ f.range_start <= g.range_end /\ g.range_start <= f.range_end
    /\ TaskIdsOf(f.task_list) \cap TaskIdsOf(g.task_list) # {}

\* C4: two ensure_occurrences_for_tasks calls with overlapping windows for the same
\* task, interleaved in any way, both complete without error, and afterwards every
\* due date of the two windows has exactly one occurrence.
C4_OverlappingWindowsBothSucceed ==
    \A p \in Procs : \A q \in Procs \ {p} :
        Overlapping(req[p], req[q]) =>
            /\ req[p].code = "ok" /\ req[q].code = "ok"
            /\ \A f \in { req[p], req[q] } :
                 \A i \in 1..Len(f.task_list) :
                     \A d \in DueDatesOf(f.task_list[i], f.range_start, f.range_end) :
                         Cardinality(RowsOf(f.task_list[i].id, d)) = 1

\* both calls read the existing pairs before either inserted: one of them inserted
\* rows, the other had its rows absorbed by the constraint, and both have returned
C4_Witness ==
    \E p \in Procs : \E q \in Procs \ {p} :
        /\ Overlapping(req[p], req[q])
        /\ req[p].range_start < req[q].range_start
        /\ req[p].range_end < req[q].range_end
        /\ req[p].created > 0
        /\ req[q].absorbed > 0 /\ req[q].created > 0
        /\ req[p].code = "ok" /\ req[q].code = "ok"

\* the handlers that end in ensure_occurrence_for_task_date
SingleDateOps == { "create", "get", "get_occurrence", "complete", "start_timer",
                   "stop_timer", "patch" }

\* C5: a unique-constraint hit is absorbed on every materialization path: of two
\* concurrent ensure_occurrence_for_task_date calls for the same (task, date), both
\* return the single persisted occurrence and neither fails with a uniqueness error.
C5_SingleDateConflictAbsorbed ==
    \A p \in Procs :
        (req[p].op \in SingleDateOps /\ req[p].pc = "done"
            /\ req[p].code \notin { "not_found", "validation_error",
                                    "occurrence_date_required" }) =>
            /\ req[p].code # "integrity_error"
            /\ RowsOf(req[p].task.id, req[p].range_start) = { req[p].occurrence }


(***************************************************************************)
(* Concurrent requests of every kind: the materializing reads above, with  *)
(* template edits (PATCH, DELETE) and occurrence mutations (complete).     *)
(***************************************************************************)
RacePatchPayloads ==
    { ReschedulePayload(1), RulePayload(DAILY, {}), StopRecurringPayload }

PatchTaskArrives(p, task_id, payload, keep) ==
    /\ Free(p)
    /\ Accept(p, patch_task(Database, task_id, payload), keep)

DeleteTaskArrives(p, task_id, keep) ==
    /\ Free(p)
    /\ Accept(p, delete_task(Database, task_id), keep)

CompleteTaskArrives(p, task_id, date_value, keep) ==
    /\ Free(p)
    /\ Accept(p, complete_task(Database, task_id, date_value), keep)

PatchSave(p, keep) ==
    /\ At(p, "patch_save")
    /\ Execute(p, PatchSaveStep(Database, req[p], now), keep)

PatchPurge(p, keep) ==
    /\ At(p, "patch_purge")
    /\ Execute(p, PatchPurgeStep(Database, req[p]), keep)

PatchOccurrenceSave(p, keep) ==
    /\ At(p, "patch_occurrence_save")
    /\ Execute(p, PatchOccurrenceSaveStep(Database, req[p]), keep)

PatchDeleteOthers(p, keep) ==
    /\ At(p, "patch_delete_others")
    /\ Execute(p, PatchDeleteOthersStep(Database, req[p]), keep)

Delete(p, keep) ==
    /\ At(p, "delete")
    /\ Execute(p, DeleteStep(Database, req[p]), keep)

CompleteSave(p, keep) ==
    /\ At(p, "complete_save")
    /\ Execute(p, CompleteSaveStep(Database, req[p], now), keep)

SyncTemplate(p, keep) ==
    /\ At(p, "sync_template")
    /\ Execute(p, SyncTemplateStep(Database, req[p], now), keep)

NextRace ==
    \E p \in Procs :
        \/ \E payload \in RaceCreatePayloads : CreateTaskArrives(p, payload, FALSE)
        \/ \E start \in RaceDates, end \in RaceDates : ListTasksArrives(p, start, end, FALSE)
        \/ \E task_id \in 1..RaceTasks : GetTaskArrives(p, task_id, FALSE)
        \/ \E task_id \in 1..RaceTasks, d \in RaceDates :
               GetTaskOccurrenceArrives(p, task_id, d, FALSE)
        \/ CreateSave(p, FALSE)
        \/ CreateOccurrenceSave(p, FALSE)
        \/ EnsureRead(p, FALSE)
        \/ EnsureBulk(p, FALSE)
        \/ ListRead(p, FALSE)
        \/ First(p, FALSE)
        \/ Create(p, FALSE)
        \/ \E task_id \in 1..RaceTasks, payload \in RacePatchPayloads :
               PatchTaskArrives(p, task_id, payload, FALSE)
        \/ \E task_id \in 1..RaceTasks : DeleteTaskArrives(p, task_id, FALSE)
        \/ \E task_id \in 1..RaceTasks, d \in RaceDates \cup {NULL} :
               CompleteTaskArrives(p, task_id, d, FALSE)
        \/ PatchSave(p, FALSE)
        \/ PatchPurge(p, FALSE)
        \/ PatchOccurrenceSave(p, FALSE)
        \/ PatchDeleteOthers(p, FALSE)
        \/ Delete(p, FALSE)
        \/ CompleteSave(p, FALSE)
        \/ SyncTemplate(p, FALSE)

\* an empty store, or a daily task with its first two dates materialized
InitRace ==
    InitWorkers({ Blank, Listed(Created(RecurringPayload(0, DAILY, {})), 0, 1) })

SpecRace == InitRace /\ [][NextRace]_vars

\* C3: in every reachable state, under any interleaving of range and single-date
\* materializations, template edits and occurrence mutations, the store holds at most
\* one occurrence per (task, date) pair.
C3_AtMostOnePerPair ==
    \A x \in occs : \A y \in occs : (x.task = y.task /\ x.date = y.date) => x.id = y.id


\* a range read had an insert absorbed by the constraint while a completion and an
\* edit of the template went on beside it
C3_Witness ==
    /\ \E p \in Procs : req[p].pc = "done" /\ req[p].op = "list" /\ req[p].absorbed > 0
    /\ \E x \in occs : x.status = COMPLETED
    /\ \E x \in occs : x.status = PENDING
    /\ \E i \in DOMAIN tasks : tasks[i].scheduled_date = 1


(***************************************************************************)
(* The task endpoints served one request at a time                         *)
(***************************************************************************)
MaxTasks == 2
MaxRows == 4
LastDate == 2
Dates == 0..LastDate

\* a one-off task reported as completed with part of its timer used
TimedCompletedPayload(d, duration, remaining) ==
    [ DefaultPayload EXCEPT
        !.fields_set = { "scheduledDate", "status", "hasTimer", "timerDuration",
                         "timerRemaining" },
        !.scheduledDate = d, !.status = "completed", !.hasTimer = TRUE,
        !.timerDuration = duration, !.timerRemaining = remaining ]

CreatePayloads ==
    { TimedCompletedPayload(0, TimerCap, 1), RecurringPayload(0, DAILY, {}),
      RecurringPayload(0, CUSTOM, { Tuesday }) }

PatchPayloads ==
    { ReschedulePayload(1), RulePayload(DAILY, {}), StopRecurringPayload }

Init ==
    /\ EmptyStore
    /\ rules = DefaultRules
    /\ maxDays = DefaultMaxDays
    /\ sk = NoStreak
    /\ NoAccounts
    /\ fin = NoResult
    /\ fout = NoResult
    /\ req = << >>
    /\ served = 0

CreateTask(payload) ==
    /\ nextTaskId <= MaxTasks
    /\ Serve(create_task(Database, payload), MaxTasks, MaxRows)

PatchTask(task_id, payload) ==
    /\ task_id \in DOMAIN tasks
    /\ Serve(patch_task(Database, task_id, payload), MaxTasks, MaxRows)

DeleteTask(task_id) ==
    /\ task_id < nextTaskId
    /\ Serve(delete_task(Database, task_id), MaxTasks, MaxRows)

ListTasks(start, end) ==
    /\ DOMAIN tasks # {}
    /\ Serve(list_tasks(Database, start, end, maxDays), MaxTasks, MaxRows)

GetTask(task_id) ==
    /\ task_id \in DOMAIN tasks
    /\ Serve(get_task(Database, task_id), MaxTasks, MaxRows)

GetTaskOccurrence(task_id, occurrence_date) ==
    /\ task_id \in DOMAIN tasks
    /\ Serve(get_task_occurrence(Database, task_id, occurrence_date), MaxTasks, MaxRows)

CompleteTask(task_id, date_value) ==
    /\ task_id \in DOMAIN tasks
    /\ Serve(complete_task(Database, task_id, date_value), MaxTasks, MaxRows)

Next ==
    \/ \E payload \in CreatePayloads : CreateTask(payload)
    \/ \E task_id \in 1..MaxTasks, payload \in PatchPayloads : PatchTask(task_id, payload)
    \/ \E task_id \in 1..MaxTasks : DeleteTask(task_id)
    \/ \E start \in Dates, end \in Dates : ListTasks(start, end)
    \/ \E task_id \in 1..MaxTasks : GetTask(task_id)
    \/ \E task_id \in 1..MaxTasks, d \in Dates : GetTaskOccurrence(task_id, d)
    \/ \E task_id \in 1..MaxTasks, d \in Dates \cup {NULL} : CompleteTask(task_id, d)

Spec == Init /\ [][Next]_vars


\* the task lists the callers hand to the materializer: every task of the owner in
\* either order, or one task
TaskLists ==
    { TaskList(tasks), TaskListByDate(tasks) } \cup { << tasks[i] >> : i \in DOMAIN tasks }

\* a window a request may name, the empty ones (start > end) included
Windows == Dates \X Dates

Ensured(task_list, w) == ensure_occurrences_for_tasks(occs, nextOccId, task_list, w[1], w[2])

\* C1: after ensure_occurrences_for_tasks(tasks, start, end), every task of the list
\* has a persisted occurrence on each of its due dates in [start, end], and the call
\* has added rows only for such pairs: none outside the window, none before the
\* task's anchor, none on a date the rule does not produce.
C1_EnsureAddsExactlyTheDuePairs ==
    \A task_list \in TaskLists : \A w \in Windows :
        LET after == Ensured(task_list, w).occs
        IN /\ \A i \in 1..Len(task_list) :
                 \A d \in DueDatesOf(task_list[i], w[1], w[2]) :
                     \E x \in after : x.task = task_list[i].id /\ x.date = d
           /\ \A x \in after \ occs :
                 \E i \in 1..Len(task_list) :
                     /\ x.task = task_list[i].id
                     /\ w[1] <= x.date /\ x.date <= w[2]
                     /\ task_list[i].scheduled_date <= x.date
                     /\ x.date \in DueDatesOf(task_list[i], w[1], w[2])

\* two tasks, each with a row the materializer added on a due date after its anchor,
\* and a window in which a call would add rows again
C1_Witness ==
    /\ Cardinality(DOMAIN tasks) = 2
    /\ \A i \in DOMAIN tasks :
           \E x \in occs : /\ x.task = i
                           /\ x.date > tasks[i].scheduled_date
                           /\ x.date \in DueDatesOf(tasks[i], 0, LastDate)
    /\ \E w \in Windows : Ensured(TaskList(tasks), w).occs # occs

\* C2: ensure_occurrences_for_tasks is idempotent: a second call with the same
\* (tasks, start, end) creates no row and leaves the store as the first call left it.
C2_EnsureIsIdempotent ==
    \A task_list \in TaskLists : \A w \in Windows :
        LET first == Ensured(task_list, w)
            second == ensure_occurrences_for_tasks(first.occs, first.next, task_list,
                                                   w[1], w[2])
        IN second.occs = first.occs /\ second.next = first.next

\* the state a first call over the whole window leaves behind: a recurring task
\* whose due dates are all persisted, so that the call repeated here adds nothing
C2_Witness ==
    \E i \in DOMAIN tasks :
        /\ tasks[i].is_recurring
        /\ Cardinality(DueDatesOf(tasks[i], 0, LastDate)) >= 2
        /\ \A d \in DueDatesOf(tasks[i], 0, LastDate) : RowsOf(i, d) # {}
        /\ Ensured(<< tasks[i] >>, << 0, LastDate >>).occs = occs

\* C6: ensure_occurrences_for_tasks never overwrites: every occurrence present before
\* the call is present after it with the same status, completion timestamp, timer
\* seconds and running-since, whatever the template's own fields are.
C6_EnsureKeepsExistingRows ==
    \A task_list \in TaskLists : \A w \in Windows :
        LET after == Ensured(task_list, w).occs
        IN \A x \in occs :
               \E y \in after :
                   /\ y.id = x.id /\ y.task = x.task /\ y.date = x.date
                   /\ y.status = x.status
                   /\ y.completed_at = x.completed_at
                   /\ y.timer_seconds = x.timer_seconds
                   /\ y.timer_running_since = x.timer_running_since

\* a completed occurrence with timer seconds, its template pending with none, and a
\* row the materializer added for the same task afterwards
C6_Witness ==
    \E x \in occs :
        /\ x.status = COMPLETED /\ x.timer_seconds > 0
        /\ x.task \in DOMAIN tasks
        /\ tasks[x.task].status = PENDING
        /\ tasks[x.task].timer_total_seconds = 0
        /\ x.date \in DueDatesOf(tasks[x.task], 0, LastDate)
        /\ \E y \in occs : y.task = x.task /\ y.id > x.id /\ y.status = PENDING


(***************************************************************************)
(* Timers: one task, its timer started and stopped while the clock runs    *)
(***************************************************************************)
\* a pending one-off task with a timer of the given duration
TimedPayload(d, duration) ==
    [ DefaultPayload EXCEPT
        !.fields_set = { "scheduledDate", "hasTimer", "timerDuration" },
        !.scheduledDate = d, !.hasTimer = TRUE, !.timerDuration = duration ]

\* the store POST /tasks leaves: a task without a timer, one with a capped timer,
\* or a daily task
InitTimer ==
    /\ \E db \in { Created(OneOffPayload(0)), Created(TimedPayload(0, TimerCap)),
                    Created(RecurringPayload(0, DAILY, {})) } :
           /\ tasks = db.tasks /\ nextTaskId = db.nextTaskId
           /\ occs = db.occs /\ nextOccId = db.nextOccId
    /\ now = 0
    /\ rules = DefaultRules
    /\ maxDays = DefaultMaxDays
    /\ sk = NoStreak
    /\ NoAccounts
    /\ fin = NoResult
    /\ fout = NoResult
    /\ req = << >>
    /\ served = 0

StartTimer(task_id, date_value) ==
    /\ task_id \in DOMAIN tasks
    /\ Serve(start_timer(Database, task_id, date_value), MaxTasks, MaxRows)

StopTimer(task_id, date_value) ==
    /\ task_id \in DOMAIN tasks
    /\ Serve(stop_timer(Database, task_id, date_value), MaxTasks, MaxRows)

\* one second passes
ClockTick ==
    /\ now < MaxSeconds
    /\ now' = now + 1
    /\ UNCHANGED << tasks, nextTaskId, occs, nextOccId, streakVars, authVars, reqVars, evalVars >>

NextTimer ==
    \/ \E task_id \in 1..MaxTasks, d \in {0, 1, NULL} : StartTimer(task_id, d)
    \/ \E task_id \in 1..MaxTasks, d \in {0, 1, NULL} : StopTimer(task_id, d)
    \/ \E task_id \in 1..MaxTasks, d \in {0, 1, NULL} : CompleteTask(task_id, d)
    \/ ClockTick

SpecTimer == InitTimer /\ [][NextTimer]_vars

\* elapsed of an occurrence of the store, at a time of the explored clock
ElapsedAt(x, t) == occurrence_elapsed_seconds(tasks[x.task], x, t)

\* as a function of now: non-decreasing while running, the same for every now once stopped
ElapsedMonotoneInNow ==
    \A x \in occs : \A n1 \in 0..MaxSeconds : \A n2 \in n1..MaxSeconds :
        /\ x.timer_running_since # NULL => ElapsedAt(x, n1) <= ElapsedAt(x, n2)
        /\ x.timer_running_since = NULL => ElapsedAt(x, n1) = ElapsedAt(x, n2)

\* from one state to the next: elapsed does not decrease while the session goes on,
\* keeps the value reached when the session is stopped, and stays there afterwards
ElapsedTrajectory ==
    \A x \in occs : \A y \in occs' :
        (y.id = x.id /\ x.task \in DOMAIN tasks') =>
            LET before == ElapsedAt(x, now)
                after == occurrence_elapsed_seconds(tasks'[y.task], y, now')
            IN /\ (x.timer_running_since # NULL
                     /\ y.timer_running_since = x.timer_running_since) => before <= after
               /\ y.timer_running_since = NULL => after = before

\* C12: for a fixed occurrence, elapsed(now) is non-decreasing in now while its timer
\* is running, and once the timer has been stopped elapsed is the same value for
\* every later now.
C12_ElapsedMonotoneThenConstant == []ElapsedMonotoneInNow /\ [][ElapsedTrajectory]_vars

\* a session that ran for some seconds has been stopped below the cap, and the clock
\* has moved on since
C12_Witness ==
    \E x \in occs :
        /\ x.timer_running_since = NULL
        /\ x.status = PENDING
        /\ 0 < x.timer_seconds /\ x.timer_seconds < now
        /\ tasks[x.task].timer_duration_seconds > x.timer_seconds

(***************************************************************************)
(* Evaluation of the recurrence evaluator on explicit tasks and ranges     *)
(***************************************************************************)
\* the four fields of a Task the evaluator reads
RuleTask(anchor, pattern, custom_days) ==
    [ scheduled_date |-> anchor, is_recurring |-> pattern # NoPattern,
      recurring_pattern |-> pattern, custom_days |-> custom_days ]

DateArgsOf(task_set, points) ==
    [ task : task_set, range_start : points, range_end : points ]

\* short ranges from 2024-01-01 (a Monday) on, for the rules that go day by day
ShortLast == 20

Monday == 1
Wednesday == 3

ShortTasks ==
    { RuleTask(a, r[1], r[2]) :
        a \in { 0, 3, 10 },
        r \in { << NoPattern, {} >>, << DAILY, {} >>, << CUSTOM, {} >>,
                << CUSTOM, { Monday, Wednesday } >>, << CUSTOM, { 0, 6 } >> } }

\* ends of months of 2024 and 2025, for the monthly rule
MonthPoints ==
    { MkDate(2024, 1, 1), MkDate(2024, 1, 31), MkDate(2024, 2, 1), MkDate(2024, 2, 29),
      MkDate(2024, 3, 1), MkDate(2024, 3, 31), MkDate(2024, 4, 30), MkDate(2024, 5, 31),
      MkDate(2024, 12, 31), MkDate(2025, 1, 31), MkDate(2025, 2, 28), MkDate(2025, 3, 31) }

MonthlyTasks ==
    { RuleTask(a, MONTHLY, {}) :
        a \in { MkDate(2024, 1, 15), MkDate(2024, 1, 30), MkDate(2024, 1, 31),
                MkDate(2024, 2, 29) } }

\* the turn of February in leap years, common years and the common year 2100
YearPoints ==
    { MkDate(2024, 1, 1), MkDate(2024, 2, 29), MkDate(2028, 2, 29) }
    \cup { MkDate(y, 2, 28) : y \in { 2024, 2025, 2028, 2100 } }
    \cup { MkDate(y, 3, 1) : y \in { 2024, 2025, 2028, 2100 } }

YearlyTasks ==
    { RuleTask(a, YEARLY, {}) :
        a \in { MkDate(2024, 1, 1), MkDate(2024, 2, 29), MkDate(2024, 3, 1) } }

DateArgs ==
    DateArgsOf(ShortTasks, 0..ShortLast)
    \cup DateArgsOf(MonthlyTasks, MonthPoints)
    \cup DateArgsOf(YearlyTasks, YearPoints)

InitDates ==
    /\ OnlyEval
    /\ fin \in DateArgs
    /\ fout = NoResult

EvalDates ==
    /\ ~fout.ready
    /\ fout' = [ ready |-> TRUE,
                 dates |-> occurrence_dates_for_task(fin.task, fin.range_start,
                                                     fin.range_end) ]
    /\ UNCHANGED << storeVars, streakVars, authVars, reqVars, fin >>

SpecDates == InitDates /\ [][EvalDates]_vars

\* the dates returned, as a set, and the first and last date the contract allows
Returned == { fout.dates[i] : i \in 1..Len(fout.dates) }
Lo == Max(fin.task.scheduled_date, fin.range_start)
Hi == fin.range_end
Evaluated(pattern) ==
    fout.ready /\ fin.task.is_recurring /\ fin.task.recurring_pattern = pattern

\* C14: occurrence_dates_for_task returns a strictly ascending list without
\* duplicates in which every date lies in [rangeStart, rangeEnd] and not before the
\* anchor; the list is empty when rangeStart > rangeEnd or the anchor is after rangeEnd.
C14_DatesOrderedInRange ==
    fout.ready =>
        /\ \A i \in 1..(Len(fout.dates) - 1) : fout.dates[i] < fout.dates[i + 1]
        /\ \A d \in Returned :
              /\ fin.range_start <= d /\ d <= fin.range_end
              /\ fin.task.scheduled_date <= d
        /\ (fin.range_start > fin.range_end \/ fin.task.scheduled_date > fin.range_end)
              => fout.dates = << >>

\* a weekday-set task anchored inside the range: several dates, none before the anchor
C14_Witness ==
    /\ Evaluated(CUSTOM)
    /\ fin.range_start < fin.task.scheduled_date
    /\ Len(fout.dates) >= 3
    /\ fout.dates[1] > fin.task.scheduled_date

\* C15: a daily task is due on exactly every date from max(anchor, rangeStart) to
\* rangeEnd; for anchor A and range [A, A+N] these are the N+1 dates A, ..., A+N.
C15_DailyEveryDate ==
    Evaluated(DAILY) =>
        /\ Len(fout.dates) = Max(0, Hi - Lo + 1)
        /\ \A i \in 1..Len(fout.dates) : fout.dates[i] = Lo + i - 1

\* the range [A, A+N] of a daily task anchored at A, with N = 10
C15_Witness ==
    /\ Evaluated(DAILY)
    /\ fin.range_start = fin.task.scheduled_date
    /\ fin.range_end = fin.range_start + 10
    /\ Len(fout.dates) = 11

\* C16: a monthly task is due on exactly the dates of [max(anchor, rangeStart),
\* rangeEnd] whose day of month is the anchor's, at most one per calendar month; a
\* month shorter than that day has none (no clamping): an anchor on the 31st gives
\* no date in a 30-day month or in February.
C16_MonthlySameDayNoClamp ==
    Evaluated(MONTHLY) =>
        LET day == DayOf(fin.task.scheduled_date)
        IN /\ \A d \in Returned : Lo <= d /\ d <= Hi /\ DayOf(d) = day
           /\ \A y \in YearOf(Lo)..YearOf(Max(Lo, Hi)) : \A m \in 1..12 :
                 (ValidYmd(y, m, day) /\ Lo <= MkDate(y, m, day) /\ MkDate(y, m, day) <= Hi)
                     => MkDate(y, m, day) \in Returned
           /\ \A i \in 1..Len(fout.dates) : \A j \in 1..Len(fout.dates) :
                 (i # j) => << YearOf(fout.dates[i]), MonthOf(fout.dates[i]) >>
                            # << YearOf(fout.dates[j]), MonthOf(fout.dates[j]) >>
           /\ day = 31 => \A d \in Returned : MonthOf(d) \notin { 2, 4, 6, 9, 11 }

\* an anchor on January 31 over February to May 2024: March 31 and May 31 only
C16_Witness ==
    /\ Evaluated(MONTHLY)
    /\ fin.task.scheduled_date = MkDate(2024, 1, 31)
    /\ fin.range_start = MkDate(2024, 2, 1)
    /\ fin.range_end = MkDate(2024, 5, 31)
    /\ fout.dates = << MkDate(2024, 3, 31), MkDate(2024, 5, 31) >>

\* C17: a yearly task is due on exactly the dates of [max(anchor, rangeStart),
\* rangeEnd] whose month and day are the anchor's, at most one per year; an anchor on
\* February 29 gives a date in leap years only.
C17_YearlySameMonthDay ==
    Evaluated(YEARLY) =>
        LET month == MonthOf(fin.task.scheduled_date)
            day == DayOf(fin.task.scheduled_date)
        IN /\ \A d \in Returned :
                 Lo <= d /\ d <= Hi /\ MonthOf(d) = month /\ DayOf(d) = day
           /\ \A y \in YearOf(Lo)..YearOf(Max(Lo, Hi)) :
                 (ValidYmd(y, month, day) /\ Lo <= MkDate(y, month, day)
                                         /\ MkDate(y, month, day) <= Hi)
                     => MkDate(y, month, day) \in Returned
           /\ \A i \in 1..Len(fout.dates) : \A j \in 1..Len(fout.dates) :
                 (i # j) => YearOf(fout.dates[i]) # YearOf(fout.dates[j])
           /\ (month = 2 /\ day = 29) => \A d \in Returned : IsLeap(YearOf(d))

\* an anchor on February 29, 2024 up to March 2100: 2100 is no leap year, and the
\* last date returned is in 2096
C17_Witness ==
    /\ Evaluated(YEARLY)
    /\ fin.task.scheduled_date = MkDate(2024, 2, 29)
    /\ fin.range_start = MkDate(2025, 3, 1)
    /\ fin.range_end = MkDate(2100, 3, 1)
    /\ Len(fout.dates) = 18
    /\ fout.dates[1] = MkDate(2028, 2, 29)
    /\ fout.dates[18] = MkDate(2096, 2, 29)

\* the weekday index of a date with Sunday = 0; day 0 is Monday, January 1, 2024
SundayFirst(d) == (d + 1) % 7

\* C18: a weekday-set task with a non-empty set S is due on exactly the dates of
\* [max(anchor, rangeStart), rangeEnd] whose weekday, Sunday = 0 .. Saturday = 6, is
\* in S; for S = {Monday, Wednesday} a 14-day window starting on or after the anchor
\* has exactly 4 dates, each a Monday or a Wednesday.
C18_WeekdaySetSundayFirst ==
    (Evaluated(CUSTOM) /\ fin.task.custom_days # {}) =>
        /\ Returned = { d \in Lo..Hi : SundayFirst(d) \in fin.task.custom_days }
        /\ Len(fout.dates) = Cardinality(Returned)
        /\ (/\ fin.task.custom_days = { Monday, Wednesday }
            /\ fin.range_start >= fin.task.scheduled_date
            /\ fin.range_end = fin.range_start + 13)
              => /\ Len(fout.dates) = 4
                 /\ \A d \in Returned : SundayFirst(d) \in { Monday, Wednesday }

\* {Monday, Wednesday} over the 14 days from Thursday, January 4, 2024, the anchor
\* being the day before
C18_Witness ==
    /\ Evaluated(CUSTOM)
    /\ fin.task.custom_days = { Monday, Wednesday }
    /\ fin.task.scheduled_date = 3
    /\ fin.range_start = 3 /\ fin.range_end = 16
    /\ fout.dates = << 7, 9, 14, 16 >>

\* C19: a non-recurring task is due on its anchor if rangeStart <= anchor <= rangeEnd
\* and never otherwise; a weekday-set task with an empty set gives the same result as
\* a non-recurring task with the same anchor, for every range.
C19_SingleAnchorDate ==
    (fout.ready /\ (~fin.task.is_recurring
                     \/ (fin.task.recurring_pattern = CUSTOM /\ fin.task.custom_days = {})))
        => /\ fout.dates = IF /\ fin.range_start <= fin.task.scheduled_date
                              /\ fin.task.scheduled_date <= fin.range_end
                           THEN << fin.task.scheduled_date >> ELSE << >>
           /\ fout.dates = occurrence_dates_for_task(
                               RuleTask(fin.task.scheduled_date, NoPattern, {}),
                               fin.range_start, fin.range_end)

\* a weekday-set task with an empty set, its anchor inside the range: the anchor alone
C19_Witness ==
    /\ Evaluated(CUSTOM)
    /\ fin.task.custom_days = {}
    /\ fin.range_start < fin.task.scheduled_date
    /\ fin.task.scheduled_date < fin.range_end
    /\ fout.dates = << fin.task.scheduled_date >>

(***************************************************************************)
(* Edits of the weekday set of one task, between window reads and          *)
(* completions                                                             *)
(***************************************************************************)
\* PATCH /tasks/{task_id} with a weekday set: validate_state takes customDays only
\* together with isRecurring and recurringPattern
WeekdaysPayload(custom_days) == RulePayload(CUSTOM, custom_days)

\* PATCH /tasks/{task_id} that moves the task and gives it a weekday set
MovePayload(d, custom_days) == RecurringPayload(d, CUSTOM, custom_days)

WeekdaySets == { { Tuesday }, { Monday, Wednesday } }

EditPayloads ==
    { WeekdaysPayload(S) : S \in WeekdaySets } \cup { MovePayload(1, { Tuesday }) }

\* the store POST /tasks leaves: a one-off task, a daily task or a weekday-set task,
\* on Monday, January 1, 2024
InitEdit ==
    /\ \E db \in { Created(OneOffPayload(0)), Created(RecurringPayload(0, DAILY, {})),
                    Created(RecurringPayload(0, CUSTOM, { Monday, Wednesday })) } :
           /\ tasks = db.tasks /\ nextTaskId = db.nextTaskId
           /\ occs = db.occs /\ nextOccId = db.nextOccId
    /\ now = 0
    /\ rules = DefaultRules
    /\ maxDays = DefaultMaxDays
    /\ sk = NoStreak
    /\ NoAccounts
    /\ fin = NoResult
    /\ fout = NoResult
    /\ req = << >>
    /\ served = 0

NextEdit ==
    \/ \E payload \in EditPayloads : PatchTask(1, payload)
    \/ \E start \in Dates, end \in Dates : ListTasks(start, end)
    \/ \E d \in Dates : CompleteTask(1, d)

SpecEdit == InitEdit /\ [][NextEdit]_vars

\* the step edits the weekday set of task 1, recurring before and after
WeekdaySetEdited ==
    /\ tasks[1].is_recurring
    /\ \E payload \in EditPayloads : PatchTask(1, payload)
    /\ tasks'[1].custom_days # tasks[1].custom_days

\* no pending occurrence is left on a date the new rule does not produce
StalePendingGone ==
    \A x \in occs :
        (x.status = PENDING /\ ~task_occurs_on_date(tasks'[1], x.date))
            => ~\E y \in occs' : y.task = x.task /\ y.date = x.date /\ y.status = PENDING

\* the completed occurrences are the rows they were
CompletedUntouched ==
    \A x \in occs : x.status = COMPLETED => x \in occs'

\* a window read adds pending occurrences on dates of the rule of the task only
ReadRegeneratesOnRule ==
    (\E start \in Dates, end \in Dates : ListTasks(start, end))
        => /\ occs \subseteq occs'
           /\ \A y \in occs' \ occs :
                 y.status = PENDING /\ task_occurs_on_date(tasks[y.task], y.date)

\* C20: when a recurring task that stays recurring is edited with a new weekday set,
\* every pending occurrence on a date the new rule does not produce is deleted and
\* every completed occurrence of the task is left untouched; a later read of a window
\* regenerates pending occurrences only on dates of the new rule.
C20_WeekdayEditPurgesStalePending ==
    [][ /\ WeekdaySetEdited => (StalePendingGone /\ CompletedUntouched)
        /\ ReadRegeneratesOnRule ]_vars

(***************************************************************************)
(* Requests answered one at a time, the request and its response code kept *)
(***************************************************************************)
\* the request served last and the store it found
Request(op, task_id, date_value, start, end) ==
    [ ready |-> TRUE, op |-> op, task_id |-> task_id, date |-> date_value,
      range_start |-> start, range_end |-> end, before |-> Database ]

Answered(r, request) ==
    /\ Within(r.db, MaxTasks, MaxRows)
    /\ Commit(r.db)
    /\ fin' = request
    /\ fout' = [ ready |-> TRUE, code |-> r.f.code ]
    /\ UNCHANGED << now, streakVars, authVars, req, served >>

Answer(frame, request) == Answered(Run(Database, frame, now), request)

AnswerCompleteTask(task_id, date_value) ==
    /\ task_id \in DOMAIN tasks
    /\ Answer(complete_task(Database, task_id, date_value),
              Request("complete", task_id, date_value, 0, 0))

AnswerStartTimer(task_id, date_value) ==
    /\ task_id \in DOMAIN tasks
    /\ Answer(start_timer(Database, task_id, date_value),
              Request("start_timer", task_id, date_value, 0, 0))

AnswerStopTimer(task_id, date_value) ==
    /\ task_id \in DOMAIN tasks
    /\ Answer(stop_timer(Database, task_id, date_value),
              Request("stop_timer", task_id, date_value, 0, 0))

AnswerGetTaskOccurrence(task_id, occurrence_date) ==
    /\ task_id \in DOMAIN tasks
    /\ Answer(get_task_occurrence(Database, task_id, occurrence_date),
              Request("get_occurrence", task_id, occurrence_date, 0, 0))

AnswerListTasks(start, end) ==
    /\ DOMAIN tasks # {}
    /\ Answer(list_tasks(Database, start, end, maxDays),
              Request("list", 0, NULL, start, end))

\* the store POST /tasks leaves, under a MAX_TASK_RANGE_DAYS of 1, 2 or the default
InitAnswers ==
    /\ \E db \in { Created(OneOffPayload(0)), Created(RecurringPayload(1, DAILY, {})),
                    Created(RecurringPayload(0, CUSTOM, { Tuesday })) } :
           /\ tasks = db.tasks /\ nextTaskId = db.nextTaskId
           /\ occs = db.occs /\ nextOccId = db.nextOccId
    /\ now = 0
    /\ rules = DefaultRules
    /\ maxDays \in { 1, 2, DefaultMaxDays }
    /\ sk = NoStreak
    /\ NoAccounts
    /\ fin = NoResult
    /\ fout = NoResult
    /\ req = << >>
    /\ served = 0

NextAnswers ==
    \/ \E d \in Dates \cup {NULL} : AnswerCompleteTask(1, d)
    \/ \E d \in Dates \cup {NULL} : AnswerStartTimer(1, d)
    \/ \E d \in Dates \cup {NULL} : AnswerStopTimer(1, d)
    \/ \E d \in Dates \cup {NULL} : AnswerGetTaskOccurrence(1, d)
    \/ \E start \in Dates, end \in Dates : AnswerListTasks(start, end)

SpecAnswers == InitAnswers /\ [][NextAnswers]_vars

OccurrenceOps == { "complete", "start_timer", "stop_timer", "get_occurrence" }

\* the request was rejected with the code and has left the store as it found it
Rejected(code) == fout.code = code /\ Database = fin.before

\* C21: complete, start-timer, stop-timer and get-occurrence for a (task, date) the
\* rule of the task does not produce fail with validation_error, and for a recurring
\* task without a date with occurrence_date_required; no occurrence is then created
\* or modified and the task is unchanged.
C21_OffRuleDateRejected ==
    (fin.ready /\ fin.op \in OccurrenceOps) =>
        LET task == fin.before.tasks[fin.task_id]
            target_date == IF fin.date = NULL THEN task.scheduled_date ELSE fin.date
        IN IF task.is_recurring /\ fin.date = NULL
           THEN Rejected("occurrence_date_required")
           ELSE (target_date \notin DueDatesOf(task, 0, LastDate))
                    => Rejected("validation_error")

\* a timer start on a Monday of a Tuesday task has been rejected, the anchor row of
\* the task still pending and not running
C21_Witness ==
    /\ fin.ready /\ fin.op = "start_timer" /\ fin.date = 0
    /\ tasks[1].recurring_pattern = CUSTOM /\ tasks[1].custom_days = { Tuesday }
    /\ fout.code = "validation_error"
    /\ ~tasks[1].has_timer
    /\ \E x \in occs : x.date = 0 /\ x.status = PENDING /\ x.timer_running_since = NULL

(***************************************************************************)
(* Ranged requests: GET /tasks?start&end and GET /streak/summary?start&end *)
(***************************************************************************)
NextRanges ==
    \/ \E start \in Dates, end \in Dates : AnswerListTasks(start, end)
    \/ \E start \in Dates, end \in Dates : StreakSummary(start, end)
    \/ StreakWindow
    \/ StreakScanDay

SpecRanges == InitAnswers /\ [][NextRanges]_vars

\* the code the claim gives a range under the configured maximum
RangeCode(start, end) ==
    IF start > end THEN "validation_error"
    ELSE IF end - start + 1 > Max(1, maxDays) THEN "range_too_large"
    ELSE "ok"

\* the task list answered last, no summary having been asked since
ListAnswered ==
    (fin.ready /\ fin.op = "list" /\ sk.pc = "idle") =>
        /\ fout.code = RangeCode(fin.range_start, fin.range_end)
        /\ fout.code # "ok" => Database = fin.before

\* the step that takes a summary request
SummaryAnswered ==
    (sk.pc = "idle" /\ sk'.op = "summary") =>
        LET code == RangeCode(sk'.range[1], sk'.range[2])
        IN IF code = "ok" THEN sk'.code \in { "ok", "none" }
           ELSE /\ sk'.pc = "done" /\ sk'.code = code
                /\ UNCHANGED storeVars

\* C22: a ranged request (task list, streak summary) with start > end is rejected
\* with validation_error, one whose inclusive span end - start + 1 exceeds the
\* configured maximum with range_too_large, and a span of exactly the maximum is
\* accepted; on either rejection nothing is materialized and the store is unchanged.
C22_RangeRejections == []ListAnswered /\ [][SummaryAnswered]_vars

\* under a maximum of 2 days a list of 3 days has been refused, and a summary of
\* exactly 2 days accepted
C22_Witness ==
    /\ maxDays = 2
    /\ fin.ready /\ fin.op = "list" /\ fin.range_end = fin.range_start + 2
    /\ fout.code = "range_too_large"
    /\ sk.op = "summary" /\ sk.range = << 0, 1 >> /\ sk.pc = "done" /\ sk.code = "ok"

(***************************************************************************)
(* Accounts (apps/accounts/api.py): refresh token rotation and password    *)
(* reset. Times are seconds of the clock now; the rate limits are left out *)
(***************************************************************************)
MaxUsers == 2
MaxRefreshTokens == 3
MaxResetTokens == 2

\* JWT_REFRESH_TTL_DAYS and PASSWORD_RESET_TTL_MINUTES, in ticks of the clock
RefreshTtl == 2
ResetTtl == 2

Accounts == [ users |-> users, refreshTokens |-> refreshTokens, resetTokens |-> resetTokens ]

Reply(db, code) == [ db |-> db, code |-> code ]

\* the refresh JWT of a RefreshToken row: jti, sub and exp under the signature
JwtOf(t) == [ jti |-> t.jti, sub |-> t.user, exp |-> t.expires_at ]

\* the request carries no refresh value, in the body or in the cookie
NoRefresh == [ jti |-> 0, sub |-> 0, exp |-> 0 ]

\* jwt.decode: the signature has expired when exp <= now
decode_token(refresh_value, now_utc) == refresh_value.exp > now_utc

\* _issue_tokens: the RefreshToken row of a fresh refresh JWT
IssuedToken(db, user, now_utc) ==
    [ jti |-> Cardinality(db.refreshTokens) + 1, user |-> user,
      expires_at |-> now_utc + RefreshTtl, revoked_at |-> NULL, replaced_by |-> NULL ]

\* _revoke_token(token_record, replaced_by)
_revoke_token(S, token_record, replaced_by, now_utc) ==
    { IF t.jti = token_record.jti
      THEN [ t EXCEPT !.revoked_at = now_utc, !.replaced_by = replaced_by ]
      ELSE t : t \in S }

\* RefreshToken.objects.filter(user=user, revoked_at__isnull=True).update(revoked_at=now)
RevokeAllOf(S, user, now_utc) ==
    { IF t.user = user /\ t.revoked_at = NULL THEN [ t EXCEPT !.revoked_at = now_utc ]
      ELSE t : t \in S }

\* the reuse test of refresh_tokens leaving out the tokens only revoked
ReuseOnlyWhenReplaced(token_record) == token_record.replaced_by # NULL

\* refresh_tokens: a rotated or revoked token is a sign of compromise
IsReuse(token_record) == token_record.revoked_at # NULL \/ token_record.replaced_by # NULL

\* POST /auth/refresh from the token record on
RefreshFound(db, token_record, now_utc) ==
    IF IsReuse(token_record)
    THEN Reply([ db EXCEPT !.refreshTokens =
                     RevokeAllOf(db.refreshTokens, token_record.user, now_utc) ],
               "refresh_reuse")
    ELSE IF token_record.expires_at <= now_utc
    THEN Reply([ db EXCEPT !.refreshTokens =
                     _revoke_token(db.refreshTokens, token_record, NULL, now_utc) ],
               "expired_refresh")
    ELSE IF ~db.users[token_record.user].is_active
    THEN Reply([ db EXCEPT !.refreshTokens =
                     _revoke_token(db.refreshTokens, token_record, NULL, now_utc) ],
               "inactive_user")
    ELSE Reply([ db EXCEPT !.refreshTokens =
                     _revoke_token(db.refreshTokens \cup
                                       { IssuedToken(db, token_record.user, now_utc) },
                                   token_record,
                                   IssuedToken(db, token_record.user, now_utc).jti,
                                   now_utc) ],
               "ok")

\* POST /auth/refresh
refresh_tokens(db, refresh_value, now_utc) ==
    IF refresh_value = NoRefresh THEN Reply(db, "no_refresh")
    ELSE IF ~decode_token(refresh_value, now_utc) THEN Reply(db, "invalid_refresh")
    ELSE IF ~\E t \in db.refreshTokens :
                 t.jti = refresh_value.jti /\ t.user = refresh_value.sub
    THEN Reply(db, "invalid_refresh")
    ELSE RefreshFound(db,
                      CHOOSE t \in db.refreshTokens :
                          t.jti = refresh_value.jti /\ t.user = refresh_value.sub,
                      now_utc)

\* POST /auth/login: _authenticate, then _issue_tokens
login(db, user, password, now_utc) ==
    IF db.users[user].password # password THEN Reply(db, "invalid_credentials")
    ELSE IF ~db.users[user].is_active THEN Reply(db, "inactive_user")
    ELSE Reply([ db EXCEPT !.refreshTokens = @ \cup { IssuedToken(db, user, now_utc) } ], "ok")

\* POST /auth/logout-all of the authenticated user
logout_all(db, user, now_utc) ==
    Reply([ db EXCEPT !.refreshTokens = RevokeAllOf(db.refreshTokens, user, now_utc) ],
          "no_content")

\* POST /auth/forgot-password: the same response whether or not a token was made
forgot_password(db, user, now_utc) ==
    IF db.users[user].is_active
    THEN Reply([ db EXCEPT !.resetTokens = @ \cup
                    { [ id |-> Cardinality(db.resetTokens) + 1, user |-> user,
                        expires_at |-> now_utc + ResetTtl, used_at |-> NULL ] } ],
               "ok")
    ELSE Reply(db, "ok")

\* the tail of reset_password leaving the other reset tokens of the user usable
ResetKeepsOtherTokens(db, reset_token, new_password, now_utc) ==
    Reply([ db EXCEPT
              !.users[reset_token.user].password = new_password,
              !.resetTokens = { IF t.id = reset_token.id THEN [ t EXCEPT !.used_at = now_utc ]
                                ELSE t : t \in db.resetTokens },
              !.refreshTokens = RevokeAllOf(db.refreshTokens, reset_token.user, now_utc) ],
          "ok")

\* reset_password once the token and the password are accepted
ResetAccepted(db, reset_token, new_password, now_utc) ==
    Reply([ db EXCEPT
              !.users[reset_token.user].password = new_password,
              !.resetTokens = { IF t.user = reset_token.user /\ t.used_at = NULL
                                THEN [ t EXCEPT !.used_at = now_utc ] ELSE t :
                                t \in db.resetTokens },
              !.refreshTokens = RevokeAllOf(db.refreshTokens, reset_token.user, now_utc) ],
          "ok")

\* a password validate_password refuses
Weak == "weak"

\* POST /auth/reset-password; token 0 is a token of no row
ResetFound(db, reset_token, new_password, now_utc) ==
    IF reset_token.used_at # NULL THEN Reply(db, "token_used")
    ELSE IF reset_token.expires_at <= now_utc THEN Reply(db, "token_expired")
    ELSE IF new_password = Weak THEN Reply(db, "validation_error")
    ELSE ResetAccepted(db, reset_token, new_password, now_utc)

reset_password(db, token, new_password, now_utc) ==
    IF ~\E t \in db.resetTokens : t.id = token THEN Reply(db, "token_invalid")
    ELSE ResetFound(db, CHOOSE t \in db.resetTokens : t.id = token, new_password, now_utc)

\* the request answered last
AuthRequest(op, user, token, refresh_value) ==
    [ ready |-> TRUE, op |-> op, user |-> user, token |-> token, refresh |-> refresh_value ]

MaxAuthRequests == 4

AuthAnswered(r, request) ==
    /\ served < MaxAuthRequests
    /\ Cardinality(r.db.refreshTokens) <= MaxRefreshTokens
    /\ Cardinality(r.db.resetTokens) <= MaxResetTokens
    /\ users' = r.db.users
    /\ refreshTokens' = r.db.refreshTokens
    /\ resetTokens' = r.db.resetTokens
    /\ served' = served + 1
    /\ fin' = request
    /\ fout' = [ ready |-> TRUE, code |-> r.code ]
    /\ UNCHANGED << storeVars, streakVars, req >>

Passwords == { "old", "new", Weak }

Login(user, password) ==
    AuthAnswered(login(Accounts, user, password, now), AuthRequest("login", user, 0, NoRefresh))

RefreshTokens(refresh_value) ==
    AuthAnswered(refresh_tokens(Accounts, refresh_value, now),
                 AuthRequest("refresh", 0, 0, refresh_value))

LogoutAll(user) ==
    AuthAnswered(logout_all(Accounts, user, now), AuthRequest("logout_all", user, 0, NoRefresh))

ForgotPassword(user) ==
    AuthAnswered(forgot_password(Accounts, user, now),
                 AuthRequest("forgot_password", user, 0, NoRefresh))

ResetPassword(token, new_password) ==
    AuthAnswered(reset_password(Accounts, token, new_password, now),
                 AuthRequest("reset_password", 0, token, NoRefresh))

\* an administrator disables the account
DeactivateUser(user) ==
    /\ users[user].is_active
    /\ users' = [ users EXCEPT ![user].is_active = FALSE ]
    /\ UNCHANGED << storeVars, streakVars, reqVars, evalVars, refreshTokens, resetTokens >>

\* registered users, nobody logged in yet
InitAuth ==
    /\ EmptyStore
    /\ rules = DefaultRules
    /\ maxDays = DefaultMaxDays
    /\ sk = NoStreak
    /\ req = << >>
    /\ served = 0
    /\ fin = NoResult
    /\ fout = NoResult
    /\ users = [ u \in 1..MaxUsers |-> [ password |-> "old", is_active |-> TRUE ] ]
    /\ refreshTokens = {}
    /\ resetTokens = {}

\* sessions: log in, rotate, log out everywhere, while the clock runs
NextRefresh ==
    \/ \E user \in 1..MaxUsers, password \in Passwords : Login(user, password)
    \/ \E t \in refreshTokens : RefreshTokens(JwtOf(t))
    \/ RefreshTokens(NoRefresh)
    \/ \E user \in 1..MaxUsers : LogoutAll(user)
    \/ \E user \in 1..MaxUsers : DeactivateUser(user)
    \/ ClockTick

SpecRefresh == InitAuth /\ [][NextRefresh]_vars

\* account recovery: log in, ask for reset tokens, reset, while the clock runs
NextReset ==
    \/ \E user \in 1..MaxUsers : Login(user, users[user].password)
    \/ \E user \in 1..MaxUsers : ForgotPassword(user)
    \/ \E token \in 0..MaxResetTokens, password \in Passwords : ResetPassword(token, password)
    \/ ClockTick

SpecReset == InitAuth /\ [][NextReset]_vars

\* the step answers a refresh request that presented the refresh JWT of row t
Presented(t) ==
    /\ served' = served + 1
    /\ fin'.op = "refresh"
    /\ fin'.refresh.jti = t.jti
    /\ fin'.refresh.sub = t.user

\* row t had been rotated or revoked before the request
Spent(t) == t.revoked_at # NULL \/ t.replaced_by # NULL

\* the request was refused as a reuse and left the user of t without a session
ReuseAnswered(t) ==
    /\ fout'.code = "refresh_reuse"
    /\ \A u \in refreshTokens' : u.user = t.user => u.revoked_at # NULL

ResetStep == served' = served + 1 /\ fin'.op = "reset_password"

\* the reset token presented is of no row, or of a row used or expired
Unusable(token) ==
    \/ ~\E t \in resetTokens : t.id = token
    \/ \E t \in resetTokens : t.id = token /\ (t.used_at # NULL \/ t.expires_at <= now)

\* after the reset every reset token of the user is used and every refresh
\* token of the user is revoked
RecoveryDone(t) ==
    /\ \E u \in resetTokens' : u.id = t.id /\ u.used_at = now
    /\ \A u \in resetTokens' : u.user = t.user => u.used_at # NULL
    /\ \A r \in refreshTokens' : r.user = t.user => r.revoked_at # NULL

\* C24: a successful password reset marks the presented reset token used,
\* marks every other unused reset token of the same user used and revokes all
\* of that user's unrevoked refresh tokens; a reset token that is unknown,
\* already used or expired is rejected and changes no token and no password.
C24_ResetRevokesAndInvalidates ==
    [][ ResetStep =>
          /\ fout'.code = "ok" =>
                \E t \in resetTokens : t.id = fin'.token /\ t.used_at = NULL /\ RecoveryDone(t)
          /\ Unusable(fin'.token) =>
                /\ fout'.code \in { "token_invalid", "token_used", "token_expired" }
                /\ UNCHANGED authVars ]_vars

\* a reset succeeded for a user who had a session and a second reset token
C24_Witness ==
    /\ fin.ready /\ fin.op = "reset_password"
    /\ fout.code = "ok"
    /\ \E t, u \in resetTokens :
          /\ t.id = fin.token
          /\ u.id # t.id /\ u.user = t.user
          /\ u.used_at = t.used_at
          /\ users[t.user].password = "new"
          /\ \E r \in refreshTokens : r.user = t.user /\ r.revoked_at = t.used_at

(***************************************************************************)
(* Concurrent occurrence mutations: two workers take one call each among   *)
(* complete, start-timer and stop-timer and run it statement by statement  *)
(* while the clock runs. The date of a call is a date of the rule, so the   *)
(* materializer never comes to its fallback insert.                        *)
(***************************************************************************)
OccurrenceMutations == { "complete", "start_timer", "stop_timer" }

Mutation(op, db, task_id, date_value) ==
    CASE op = "complete" -> complete_task(db, task_id, date_value)
      [] op = "start_timer" -> start_timer(db, task_id, date_value)
      [] OTHER -> stop_timer(db, task_id, date_value)

\* the store a call leaves when served alone at time t
Then(db, op, task_id, date_value, t) ==
    Run(db, Mutation(op, db, task_id, date_value), t).db

\* a daily task and a one-off task with a timer, as created or with the timer
\* of the first occurrence started
MutationStores ==
    { Created(RecurringPayload(0, DAILY, {})),
      Then(Created(RecurringPayload(0, DAILY, {})), "start_timer", 1, 0, 0),
      Created(TimedPayload(0, TimerCap)),
      Then(Created(TimedPayload(0, TimerCap)), "start_timer", 1, NULL, 0) }

\* fin keeps the store the two calls start from
InitMutations ==
    /\ \E db \in MutationStores :
          /\ tasks = db.tasks
          /\ nextTaskId = db.nextTaskId
          /\ occs = db.occs
          /\ nextOccId = db.nextOccId
    /\ now = 0
    /\ rules = DefaultRules
    /\ maxDays = DefaultMaxDays
    /\ sk = NoStreak
    /\ NoAccounts
    /\ fin = [ ready |-> FALSE, before |-> Database ]
    /\ fout = NoResult
    /\ req = [ p \in Procs |-> NoFrame ]
    /\ served = 0

\* a worker that has served nothing yet takes a call
MutationArrives(p, op, task_id, date_value) ==
    /\ req[p].pc = "idle"
    /\ Accept(p, Mutation(op, Database, task_id, date_value), TRUE)

TimerFlagSave(p) ==
    /\ At(p, "timer_flag_save")
    /\ Execute(p, TimerFlagSaveStep(Database, req[p], now), TRUE)

StartOccurrenceSave(p) ==
    /\ At(p, "start_occurrence_save")
    /\ Execute(p, StartOccurrenceSaveStep(Database, req[p], now), TRUE)

StartSync(p) ==
    /\ At(p, "start_sync")
    /\ Execute(p, StartSyncStep(Database, req[p], now), TRUE)

StopOccurrenceSave(p) ==
    /\ At(p, "stop_occurrence_save")
    /\ Execute(p, StopOccurrenceSaveStep(Database, req[p], now), TRUE)

NextMutations ==
    \/ \E p \in Procs :
        \/ \E op \in OccurrenceMutations, d \in { 0, 1 } : MutationArrives(p, op, 1, d)
        \/ EnsureRead(p, TRUE)
        \/ EnsureBulk(p, TRUE)
        \/ First(p, TRUE)
        \/ CompleteSave(p, TRUE)
        \/ SyncTemplate(p, TRUE)
        \/ TimerFlagSave(p)
        \/ StartOccurrenceSave(p)
        \/ StartSync(p)
        \/ StopOccurrenceSave(p)
    \/ ClockTick

SpecMutations == InitMutations /\ [][NextMutations]_vars

\* the completion and timer state of the occurrence of a date
TimerState(x) ==
    [ status |-> x.status, completed_at |-> x.completed_at,
      timer_seconds |-> x.timer_seconds, timer_running_since |-> x.timer_running_since ]

TimerStates(db, task_id, d) ==
    { TimerState(x) : x \in { y \in db.occs : y.task = task_id /\ y.date = d } }

\* what the two calls leave when one is served after the other, at any two
\* times of the clock
SerialStates(db, first_op, second_op, task_id, d) ==
    { TimerStates(Then(Then(db, first_op, task_id, d, tt[1]), second_op, task_id, d, tt[2]),
                  task_id, d) :
        tt \in { tt \in (0..MaxSeconds) \X (0..MaxSeconds) : tt[1] <= tt[2] } }

BothAnswered ==
    /\ \A p \in Procs : req[p].pc = "done" /\ req[p].code = "ok"
    /\ req["a"].range_start = req["b"].range_start

\* C25: for any two concurrent calls among complete, start-timer and stop-timer
\* on the same occurrence, every interleaving ends in a state (status,
\* completion timestamp, accumulated seconds, running-since) that some serial
\* order of the two calls produces.
C25_MutationsSerializable ==
    BothAnswered =>
        TimerStates(Database, 1, req["a"].range_start) \in
            SerialStates(fin.before, req["a"].op, req["b"].op, 1, req["a"].range_start)
            \cup SerialStates(fin.before, req["b"].op, req["a"].op, 1, req["a"].range_start)

(***************************************************************************)
(* Template edits beside readers (SpecRace)                                *)
(***************************************************************************)
\* a pending occurrence the task as stored does not produce: off the anchor
\* and off the dates of the rule
StalePending(x) ==
    /\ x.status = PENDING
    /\ x.task \in DOMAIN tasks
    /\ x.date # tasks[x.task].scheduled_date
    /\ ~task_occurs_on_date(tasks[x.task], x.date)

\* a PATCH has been accepted and has not answered yet
EditInFlight == \E p \in Procs : req[p].op = "patch" /\ req[p].pc \notin { "idle", "done" }

\* a range read that loaded the tasks as they are stored now is about to read
\* the occurrences of its range
ReaderSees(p, x) ==
    /\ req[p].op = "list" /\ req[p].pc = "list_read"
    /\ \E i \in DOMAIN req[p].task_list :
          /\ req[p].task_list[i].id = x.task
          /\ req[p].task_list[i] = tasks[x.task]
    /\ x.date \in req[p].range_start..req[p].range_end

\* C26: an edit of the schedule or of the rule saves the new rule and purges
\* the stale pending occurrences atomically: no reader observes the updated
\* task together with pending occurrences only the superseded rule produced,
\* and once the edit has answered no such occurrence exists or is re-created.
C26_EditAtomicForReaders ==
    \A x \in occs :
        StalePending(x) =>
            /\ EditInFlight
            /\ \A p \in Procs : ~ReaderSees(p, x)

(***************************************************************************)
(* The chunked scan of _current_streak against one scan of the whole       *)
(* history (SpecStreak)                                                    *)
(***************************************************************************)
\* the backward scan of _current_streak over one aggregate of every date
RECURSIVE BackwardScan(_, _, _, _)
BackwardScan(counts_map, cursor, earliest, streak) ==
    IF cursor < earliest THEN streak
    ELSE IF ~ScanQualified(counts_map[cursor].scheduled, counts_map[cursor].completed,
                           rules.min_daily_tasks, rules.threshold_percent)
    THEN streak
    ELSE BackwardScan(counts_map, cursor - 1, earliest, streak + 1)

\* _current_streak with a window that takes in [earliest anchor, today] at once
UnchunkedStreak ==
    IF DOMAIN tasks = {} \/ DateOf(now) < EarliestTaskDate(tasks) THEN 0
    ELSE BackwardScan(_daily_counts(FullHistory, EarliestTaskDate(tasks), DateOf(now)),
                      DateOf(now), EarliestTaskDate(tasks), 0)

\* C27: for every history of daily aggregates and every window size >= 1 the
\* chunked currentStreak is the value of one unchunked backward scan over
\* [earliest task anchor, today]: the result does not depend on the window size.
C27_ChunkedEqualsUnchunked ==
    (sk.pc = "done" /\ sk.code = "ok") => sk.streak = UnchunkedStreak

\* a streak longer than the window, counted over three windows
C27_Witness ==
    /\ sk.pc = "done" /\ sk.code = "ok"
    /\ maxDays = 2
    /\ sk.rounds = 3
    /\ sk.streak = 5
    /\ UnchunkedStreak = 5

\* the request is served to its end: neither loop of _current_streak is left
\* waiting for ever. StreakWindow is enabled exactly when sk.pc = "window", and
\* its weak fairness WF_vars(StreakWindow) is written out with that guard.
WindowFair == []<>(sk.pc # "window") \/ []<><<StreakWindow>>_vars

SpecStreakFair == SpecStreak /\ WindowFair /\ WF_vars(StreakScanDay)

Ceil(n, w) == (n + w - 1) \div w

\* the window in hand spans at most the window size, the round trips made are
\* at most ceil(days / window size), and the dates counted are the dates passed
WindowsBounded ==
    sk.rounds >= 1 =>
        /\ sk.window_start <= sk.window_end
        /\ sk.window_end - sk.window_start + 1 <= Max(1, maxDays)
        /\ sk.rounds <= Ceil(sk.today - sk.earliest + 1, Max(1, maxDays))
        /\ sk.streak = sk.today - sk.cursor

\* a window starts at today or on the eve of the window before it
WindowsContiguous ==
    (sk.pc = "window" /\ sk'.pc = "scan") =>
        /\ sk'.rounds = sk.rounds + 1
        /\ sk'.window_end = IF sk.rounds = 0 THEN sk.today ELSE sk.window_start - 1

\* the date evaluated is of the window in hand, and the cursor leaves it for
\* the day before or the scan is over
DateEvaluatedOnce ==
    sk.pc = "scan" =>
        /\ sk.cursor \in sk.window_start..sk.window_end
        /\ \/ sk'.cursor = sk.cursor - 1 /\ sk'.streak = sk.streak + 1
           \/ sk'.cursor = sk.cursor /\ sk'.streak = sk.streak /\ sk'.pc \in { "scan", "done" }

\* C28: currentStreak always terminates: successive windows are disjoint and
\* contiguous, so each date of [earliest anchor, today] is evaluated and
\* counted at most once, every window spans at most windowSize days, and the
\* materialize+aggregate round trips number at most
\* ceil((today - earliest + 1) / windowSize).
C28_ScanTerminatesWithinBound ==
    /\ []WindowsBounded
    /\ [][WindowsContiguous /\ DateEvaluatedOnce]_vars
    /\ (sk.pc \in { "window", "scan" }) ~> (sk.pc = "done")

\* seven qualifying days scanned in windows of three: three round trips
C28_Witness ==
    /\ sk.pc = "done" /\ sk.code = "ok"
    /\ maxDays = 3
    /\ sk.today - sk.earliest + 1 = 7
    /\ sk.rounds = 3
    /\ sk.window_start = sk.earliest
    /\ sk.streak = 7

\* every occurrence the tasks of the list have on the dates of [a, b] is a row of S
Materialized(S, task_list, a, b) ==
    \A k \in DOMAIN DuePairs(task_list, a, b) :
        \E x \in S : /\ x.task = DuePairs(task_list, a, b)[k][1].id
                      /\ x.date = DuePairs(task_list, a, b)[k][2]

\* a round trip: the window lies in [earliest anchor, today] behind dates that
\* all qualified, it is materialized, and the aggregate counts the rows it has
\* once materialized
WindowInOrder ==
    (sk.pc = "window" /\ sk'.pc = "scan") =>
        /\ sk.earliest <= sk'.window_start /\ sk'.window_end <= sk.today
        /\ \A d \in (sk'.window_end + 1)..sk.today : QualifiesOn(occs, d)
        /\ \A x \in occs' \ occs : x.date \in sk'.window_start..sk'.window_end
        /\ Materialized(occs', sk.task_list, sk'.window_start, sk'.window_end)
        /\ \A d \in sk'.window_start..sk'.window_end : sk'.counts_map[d] = CountsOn(occs', d)

\* the inner loop calls nothing, and returns at the first date that does not qualify
ScanStopsAtFirstMiss ==
    sk.pc = "scan" =>
        /\ UNCHANGED occs
        /\ ~QualifiesOn(occs, sk.cursor) => sk'.pc = "done" /\ sk'.streak = sk.streak

\* nothing is called once the scan has returned
NothingAfterReturn == sk.pc = "done" => UNCHANGED << occs, sk >>

\* C29: in currentStreak each window is materialized before it is aggregated,
\* an older window is materialized and aggregated only if every date of every
\* newer window qualified, no materialization or aggregation call is made after
\* the first non-qualifying date is found, and the scan never materializes a
\* date before the earliest task anchor or after today.
C29_WindowsInOrder ==
    [][WindowInOrder /\ ScanStopsAtFirstMiss /\ NothingAfterReturn]_vars

\* the scan went on to a second window, met a date that does not qualify there
\* and returned, leaving the older dates unmaterialized
C29_Witness ==
    /\ sk.pc = "done" /\ sk.op = "today" /\ sk.code = "ok"
    /\ maxDays = 2
    /\ sk.rounds = 2
    /\ sk.streak = 3
    /\ ~QualifiesOn(occs, sk.cursor)
    /\ sk.earliest < sk.window_start
    /\ ~Materialized(occs, sk.task_list, sk.earliest, sk.window_start - 1)

(***************************************************************************)
(* Removal of occurrences (Spec)                                           *)
(***************************************************************************)
\* the row is still in the store after the step
Kept(x) == \E y \in occs' : y.id = x.id

\* C30: an occurrence is removed only by the deletion of its task or by the
\* purge of not-yet-completed occurrences of a recurrence edit: no operation
\* other than task deletion, and no template edit of any kind, ever deletes a
\* completed occurrence.
C30_CompletedRemovedOnlyWithTask ==
    [][ \A x \in occs : (x.status = COMPLETED /\ x.task \in DOMAIN tasks') => Kept(x) ]_vars

(***************************************************************************)
(* Timers beside template edits: one task, its timer started and stopped,  *)
(* its occurrences completed and its template patched, one request at a    *)
(* time while the clock runs.                                              *)
(***************************************************************************)
\* PATCH /tasks/{id} {timerDuration}
TimerDurationPayload(duration) ==
    [ DefaultPayload EXCEPT !.fields_set = { "timerDuration" }, !.timerDuration = duration ]

\* PATCH /tasks/{id} {status}
StatusPayload(status) ==
    [ DefaultPayload EXCEPT !.fields_set = { "status" }, !.status = status ]

TimerPatchPayloads ==
    { TimerDurationPayload(1), StatusPayload("completed"), StatusPayload("pending") }

NextTimerEdit ==
    \/ \E d \in { 0, 1, NULL } : StartTimer(1, d)
    \/ \E d \in { 0, 1, NULL } : StopTimer(1, d)
    \/ \E d \in { 0, 1, NULL } : CompleteTask(1, d)
    \/ \E payload \in TimerPatchPayloads : PatchTask(1, payload)
    \/ ClockTick

SpecTimerEdit == InitTimer /\ [][NextTimerEdit]_vars

\* C31: in every reachable state, after any sequence of create, start-timer,
\* stop-timer, complete and template-edit operations, the accumulated timer
\* seconds of an occurrence are at most the timer duration of its task
\* whenever that duration is > 0.
C31_AccumulatedWithinDuration ==
    \A x \in occs :
        (x.task \in DOMAIN tasks /\ tasks[x.task].timer_duration_seconds > 0) =>
            x.timer_seconds <= tasks[x.task].timer_duration_seconds

(***************************************************************************)
(* Seed values: templates of both generations, materialized range by range *)
(***************************************************************************)
\* last date of the ranges the templates are materialized over
SeedLastDate == 4

\* a template as migration 0003 found it: a recurring task whose completion still
\* lives on the template (rows saved before Task.save cleared it)
LegacyTemplate(task, completed_at, timer_total_seconds) ==
    [ task EXCEPT !.status = COMPLETED, !.completed_at = completed_at,
                  !.timer_total_seconds = timer_total_seconds ]

LegacyStore(db, completed_at, timer_total_seconds) ==
    [ db EXCEPT !.tasks = [ i \in DOMAIN db.tasks |->
                              LegacyTemplate(db.tasks[i], completed_at,
                                             timer_total_seconds) ],
                !.occs = {}, !.nextOccId = 1 ]

\* the task tables the materializer runs on, no occurrence materialized yet
SeedStores ==
    { [ db EXCEPT !.occs = {}, !.nextOccId = 1 ] :
        db \in { Created(OneOffPayload(1)), Created(CompletedPayload(1)),
                 Created(TimedCompletedPayload(1, TimerCap, 1)),
                 Created(RecurringPayload(0, DAILY, {})) } }
    \cup { LegacyStore(Created(RecurringPayload(0, DAILY, {})), SecondsPerDay, 2),
           LegacyStore(Created(RecurringPayload(0, CUSTOM, { Tuesday })), SecondsPerDay, 0) }

InitSeed ==
    /\ \E db \in SeedStores :
           /\ tasks = db.tasks /\ nextTaskId = db.nextTaskId
           /\ occs = db.occs /\ nextOccId = db.nextOccId
    /\ now = 0
    /\ rules = DefaultRules
    /\ maxDays = DefaultMaxDays
    /\ sk = NoStreak
    /\ NoAccounts
    /\ fin = NoResult
    /\ fout = NoResult
    /\ req = << >>
    /\ served = 0

\* ensure_occurrences_for_tasks([task], range_start, range_end)
MaterializeRange(range_start, range_end) ==
    /\ occs' = ensure_occurrences_for_tasks(occs, nextOccId, << tasks[1] >>,
                                            range_start, range_end).occs
    /\ nextOccId' = ensure_occurrences_for_tasks(occs, nextOccId, << tasks[1] >>,
                                                 range_start, range_end).next
    /\ UNCHANGED << tasks, nextTaskId, now, streakVars, reqVars, evalVars, authVars >>

NextSeed ==
    \E range_start \in 0..SeedLastDate : \E range_end \in 0..SeedLastDate :
        MaterializeRange(range_start, range_end)

SpecSeed == InitSeed /\ [][NextSeed]_vars

\* the occurrence carries the template's completion
SeededCompleted(x) ==
    /\ x.status = COMPLETED
    /\ x.completed_at = tasks[x.task].completed_at
    /\ x.timer_seconds = tasks[x.task].timer_total_seconds
    /\ x.timer_running_since = NULL

SeededPending(x) ==
    /\ x.status = PENDING
    /\ x.completed_at = NULL
    /\ x.timer_seconds = 0
    /\ x.timer_running_since = NULL

\* the one-off template is completed and the date is its anchor
CompletedOnAnchor(x) ==
    /\ ~tasks[x.task].is_recurring
    /\ tasks[x.task].status = COMPLETED
    /\ x.date = tasks[x.task].scheduled_date

\* the recurring template still carries a completion, and the date is its day
CompletedOnTemplate(x) ==
    /\ tasks[x.task].is_recurring
    /\ tasks[x.task].status = COMPLETED
    /\ tasks[x.task].completed_at # NULL
    /\ x.date = DateOf(tasks[x.task].completed_at)

ClearDaysPayload ==
    [ DefaultPayload EXCEPT !.fields_set = { "customDays" }, !.customDays = {} ]

\* a daily task sent with a completion and a timer that has run
RecurringCompletedPayload(d) ==
    [ DefaultPayload EXCEPT
        !.fields_set = { "scheduledDate", "isRecurring", "recurringPattern", "status",
                         "completedAt", "hasTimer", "timerDuration", "timerRemaining",
                         "timerStartedAt" },
        !.scheduledDate = d, !.isRecurring = TRUE, !.recurringPattern = DAILY,
        !.status = "completed", !.completedAt = 0,
        !.hasTimer = TRUE, !.timerDuration = TimerCap, !.timerRemaining = 1,
        !.timerStartedAt = 0 ]

\* PATCH /tasks/{task_id} with a completion and a timer that has run, the rule left out
TimerCompletedPayload ==
    [ DefaultPayload EXCEPT
        !.fields_set = { "status", "completedAt", "hasTimer", "timerDuration",
                         "timerRemaining", "timerStartedAt" },
        !.status = "completed", !.completedAt = 0,
        !.hasTimer = TRUE, !.timerDuration = TimerCap, !.timerRemaining = 1,
        !.timerStartedAt = 0 ]

RuleCreatePayloads ==
    { OneOffPayload(0), RecurringPayload(0, DAILY, {}),
      RecurringPayload(0, CUSTOM, { Tuesday }), RecurringCompletedPayload(0) }

RulePatchPayloads ==
    { ClearDaysPayload, RulePayload(CUSTOM, { Monday, Wednesday }), RulePayload(DAILY, {}),
      StopRecurringPayload, TimerCompletedPayload }

NextRule ==
    \/ \E payload \in RuleCreatePayloads : CreateTask(payload)
    \/ \E task_id \in 1..MaxTasks, payload \in RulePatchPayloads : PatchTask(task_id, payload)

SpecRule == Init /\ [][NextRule]_vars

\* C33: a task whose recurrence kind is weekday-set (custom) has a non-empty weekday
\* set, and a non-recurring task has no recurring pattern and an empty weekday set.
C33_RecurrenceMetadataConsistent ==
    \A i \in DOMAIN tasks :
        /\ (tasks[i].is_recurring /\ tasks[i].recurring_pattern = CUSTOM) =>
               tasks[i].custom_days # {}
        /\ ~tasks[i].is_recurring =>
               (tasks[i].recurring_pattern = NoPattern /\ tasks[i].custom_days = {})

(***************************************************************************)
(* One task from its creation on: edits, window reads, completions, timers *)
(***************************************************************************)
\* POST /tasks of the first task of the store
CreateFirstTask(payload) ==
    /\ nextTaskId = 1
    /\ Serve(create_task(Database, payload), 1, MaxRows)

\* PATCH /tasks/{task_id} {"status": "completed", "completedAt": ...}
CompletedAtPayload(completed_at) ==
    [ DefaultPayload EXCEPT !.fields_set = { "status", "completedAt" },
                            !.status = "completed", !.completedAt = completed_at ]

LifecycleCreatePayloads ==
    { OneOffPayload(0), CompletedPayload(0), RecurringPayload(0, DAILY, {}) }

LifecyclePatchPayloads ==
    { StatusPayload("completed"), StatusPayload("pending"), CompletedAtPayload(1),
      RulePayload(DAILY, {}), StopRecurringPayload }

NextLifecycle ==
    \/ \E payload \in LifecycleCreatePayloads : CreateFirstTask(payload)
    \/ \E payload \in LifecyclePatchPayloads : PatchTask(1, payload)
    \/ ListTasks(0, 1)
    \/ \E d \in { 0, 1, NULL } : CompleteTask(1, d)
    \/ \E d \in { 0, 1, NULL } : StartTimer(1, d)
    \/ \E d \in { 0, 1, NULL } : StopTimer(1, d)
    \/ ClockTick

SpecLifecycle == Init /\ [][NextLifecycle]_vars

\* C34: an occurrence has a non-null completion timestamp if and only if its status
\* is completed.
C34_CompletedAtIffCompleted ==
    \A x \in occs : (x.completed_at # NULL) <=> (x.status = COMPLETED)

\* a completed occurrence stamped after its timer ran, beside an occurrence of the same
\* task that is pending with a session running
C34_Witness ==
    \E x \in occs : \E y \in occs :
        /\ x.task = y.task /\ x.date # y.date
        /\ x.status = COMPLETED /\ x.completed_at > 0 /\ x.timer_seconds > 0
        /\ y.status = PENDING /\ y.completed_at = NULL /\ y.timer_running_since # NULL


\* C35: an occurrence is only ever created for a (task, date) pair whose date the
\* task's recurrence rule produces at creation time, the anchor date of a weekday-set
\* task included.
C35_CreatedOnlyOnRuleDates ==
    [][ \A x \in occs' :
            (x.id \notin { y.id : y \in occs } /\ x.task \in DOMAIN tasks') =>
                x.date \in DueDatesOf(tasks'[x.task], x.date, x.date) ]_vars


\* C36: when requests are served one at a time, a completed occurrence never has a
\* running timer: running-since is null whenever the status is completed.
C36_CompletedNeverRunning ==
    \A x \in occs : x.status = COMPLETED => x.timer_running_since = NULL


(***************************************************************************)
(* Start and stop cycles of one pending occurrence                         *)
(***************************************************************************)
\* the pending occurrence a timer call of task 1 with this date parameter works on
TimerTarget(date_value) ==
    { x \in occs : /\ x.task = 1
                   /\ x.status = PENDING
                   /\ x.date = IF date_value = NULL THEN tasks[1].scheduled_date
                               ELSE date_value }

\* seconds capped at the task's duration when there is one
CappedAt(seconds, duration) ==
    IF duration > 0 /\ seconds > duration THEN duration ELSE seconds

\* accumulated seconds of a pending occurrence never decrease
AccumulatedNeverDecreases ==
    \A x \in occs : \A y \in occs' :
        (y.id = x.id /\ x.status = PENDING) => y.timer_seconds >= x.timer_seconds

\* start-timer starts a session at now, and leaves a running session as it is
StartKeepsSession ==
    \A d \in { 0, 1, NULL } :
        StartTimer(1, d) =>
            \A x \in TimerTarget(d) :
                \E y \in occs' :
                    /\ y.id = x.id /\ y.status = PENDING
                    /\ y.timer_seconds = x.timer_seconds
                    /\ y.timer_running_since =
                           IF x.timer_running_since # NULL THEN x.timer_running_since
                           ELSE now

\* stop-timer adds the session to the accumulated seconds, up to the cap, and changes
\* nothing when no session is running
StopFoldsSession ==
    \A d \in { 0, 1, NULL } :
        StopTimer(1, d) =>
            \A x \in TimerTarget(d) :
                IF x.timer_running_since = NULL
                THEN occs' = occs /\ tasks' = tasks
                ELSE \E y \in occs' :
                         /\ y.id = x.id /\ y.status = PENDING
                         /\ y.timer_running_since = NULL
                         /\ y.timer_seconds =
                                CappedAt(x.timer_seconds + (now - x.timer_running_since),
                                         tasks[1].timer_duration_seconds)

\* C37: for a pending occurrence under start-timer and stop-timer calls with a
\* non-decreasing clock, accumulated seconds never decrease; start-timer while a
\* session is running does not reset the session start; stop-timer while no session is
\* running changes nothing; and after each stop, accumulated = previous accumulated +
\* session length, capped at the task's duration when duration > 0, with running-since
\* null.
C37_StartStopCycles ==
    [][ /\ now' >= now
        /\ AccumulatedNeverDecreases
        /\ StartKeepsSession
        /\ StopFoldsSession ]_vars

\* a session that outlasted the duration has been stopped at the cap, and a new
\* session is running on top of it
C37_Witness ==
    \E x \in occs :
        /\ x.status = PENDING
        /\ tasks[x.task].timer_duration_seconds > 0
        /\ x.timer_seconds = tasks[x.task].timer_duration_seconds
        /\ x.timer_running_since # NULL
        /\ x.timer_running_since > tasks[x.task].timer_duration_seconds


(***************************************************************************)
(* Two workers rotating refresh tokens: each request is one transaction,   *)
(* its SELECT reads what is committed and its writes show at its commit    *)
(***************************************************************************)
\* requests the two workers accept in one behaviour
RotateRequests == 3

NoRotation == [ pc |-> "idle", refresh |-> NoRefresh, record |-> NoRefresh, code |-> "none" ]

InitRotate ==
    /\ EmptyStore
    /\ rules = DefaultRules
    /\ maxDays = DefaultMaxDays
    /\ sk = NoStreak
    /\ req = [ p \in Procs |-> NoRotation ]
    /\ served = 0
    /\ fin = NoResult
    /\ fout = NoResult
    /\ users = [ u \in 1..MaxUsers |-> [ password |-> "old", is_active |-> TRUE ] ]
    /\ refreshTokens = {}
    /\ resetTokens = {}

\* POST /auth/login served in one piece
RotateLogin(user) ==
    /\ Cardinality(refreshTokens) < MaxRefreshTokens
    /\ refreshTokens' = login(Accounts, user, users[user].password, now).db.refreshTokens
    /\ UNCHANGED << storeVars, streakVars, reqVars, evalVars, users, resetTokens >>

\* refresh_tokens up to the row it reads: RefreshToken.objects.filter(jti, user_id).first(),
\* no select_for_update
RefreshRead(p, refresh_value) ==
    /\ req[p].pc \in { "idle", "done" }
    /\ served < RotateRequests
    /\ served' = served + 1
    /\ req' = [ req EXCEPT ![p] =
                  IF ~decode_token(refresh_value, now)
                  THEN [ pc |-> "done", refresh |-> refresh_value, record |-> NoRefresh,
                         code |-> "invalid_refresh" ]
                  ELSE [ pc |-> "found", refresh |-> refresh_value,
                         record |-> CHOOSE t \in refreshTokens :
                                        t.jti = refresh_value.jti /\ t.user = refresh_value.sub,
                         code |-> "none" ] ]
    /\ UNCHANGED << storeVars, streakVars, evalVars, authVars >>

\* refresh_tokens from the row on: the tests look at the row as it was read, the
\* writes go to the table as it is when the transaction commits
RefreshWrite(p) ==
    /\ req[p].pc = "found"
    /\ Cardinality(RefreshFound(Accounts, req[p].record, now).db.refreshTokens)
           <= MaxRefreshTokens
    /\ refreshTokens' = RefreshFound(Accounts, req[p].record, now).db.refreshTokens
    /\ req' = [ req EXCEPT ![p].pc = "done",
                           ![p].code = RefreshFound(Accounts, req[p].record, now).code ]
    /\ UNCHANGED << storeVars, streakVars, evalVars, served, users, resetTokens >>

NextRotate ==
    \/ RotateLogin(1)
    \/ \E p \in Procs : \E t \in refreshTokens : RefreshRead(p, JwtOf(t))
    \/ \E p \in Procs : RefreshWrite(p)
    \/ ClockTick

SpecRotate == InitRotate /\ [][NextRotate]_vars

\* a successful refresh issues a new token different from the presented one and
\* marks the presented one revoked and replaced by the new one
RotationReplaces ==
    \A p \in Procs :
        (req[p].pc = "found" /\ req'[p].pc = "done" /\ req'[p].code = "ok") =>
            \E new \in refreshTokens' \ refreshTokens :
                /\ new.jti # req[p].refresh.jti
                /\ \E old \in refreshTokens' :
                       /\ old.jti = req[p].refresh.jti
                       /\ old.revoked_at # NULL
                       /\ old.replaced_by = new.jti

\* of two requests presenting the same token at most one receives new tokens
OneRotationPerToken ==
    \A p \in Procs : \A q \in Procs :
        ( /\ p # q
          /\ req[p].pc = "done" /\ req[q].pc = "done"
          /\ req[p].refresh = req[q].refresh ) =>
            ~(req[p].code = "ok" /\ req[q].code = "ok")

\* C38: a refresh token yields at most one successful rotation: a successful refresh
\* issues a new token different from the presented one and marks the presented one
\* revoked and replaced by the new one, and under any interleaving of two concurrent
\* refresh requests presenting the same token at most one of them receives new tokens.
C38_AtMostOneRotation == [][RotationReplaces]_vars /\ []OneRotationPerToken


(***************************************************************************)
(* The template of a task beside its occurrences                           *)
(***************************************************************************)
\* the step is a complete, start-timer or stop-timer call of task 1
OccurrenceCall ==
    \E d \in { 0, 1, NULL } : CompleteTask(1, d) \/ StartTimer(1, d) \/ StopTimer(1, d)

\* the template carries the state of the occurrence
TemplateEquals(task, x) ==
    /\ task.status = x.status
    /\ task.completed_at = x.completed_at
    /\ task.timer_total_seconds = x.timer_seconds
    /\ task.timer_running_since = x.timer_running_since

TemplateFollowsAnchor ==
    (1 \in DOMAIN tasks /\ ~tasks[1].is_recurring /\ OccurrenceCall) =>
        \E x \in occs' :
            /\ x.task = 1 /\ x.date = tasks'[1].scheduled_date
            /\ TemplateEquals(tasks'[1], x)

RecurringTemplateUntouched ==
    (1 \in DOMAIN tasks /\ tasks[1].is_recurring /\ OccurrenceCall) =>
        /\ tasks'[1].status = tasks[1].status
        /\ tasks'[1].completed_at = tasks[1].completed_at
        /\ tasks'[1].timer_total_seconds = tasks[1].timer_total_seconds
        /\ tasks'[1].timer_running_since = tasks[1].timer_running_since

\* C39: for a non-recurring task, after each complete, start-timer or stop-timer call
\* the template's completion status, completion timestamp, accumulated timer seconds
\* and running-since equal those of its anchor-date occurrence; for a recurring task
\* those calls never change the template's completion or timer fields.
C39_TemplateMirrorsAnchor ==
    [][ TemplateFollowsAnchor /\ RecurringTemplateUntouched ]_vars

\* a one-off task completed after its timer ran: template and occurrence both carry
\* the completion and the seconds
C39_Witness ==
    /\ 1 \in DOMAIN tasks
    /\ ~tasks[1].is_recurring
    /\ tasks[1].status = COMPLETED
    /\ tasks[1].completed_at > 0
    /\ tasks[1].timer_total_seconds > 0
    /\ \E x \in occs : /\ x.task = 1 /\ x.date = tasks[1].scheduled_date
                       /\ x.status = COMPLETED
                       /\ x.timer_seconds = tasks[1].timer_total_seconds
                       /\ x.completed_at = tasks[1].completed_at


\* C40: after any save of a recurring task definition, by create or by patch and
\* whatever completion or timer fields the payload supplies, the template's status is
\* pending, its completion timestamp is null, and its accumulated timer seconds and
\* running-since are 0 and null.
C40_RecurringTemplateReset ==
    \A i \in DOMAIN tasks :
        tasks[i].is_recurring =>
            /\ tasks[i].status = PENDING
            /\ tasks[i].completed_at = NULL
            /\ tasks[i].timer_total_seconds = 0
            /\ tasks[i].timer_running_since = NULL

\* a recurring task saved from a payload that carried a completion and a used timer,
\* beside a task the same payload completed while it was a one-off
C40_Witness ==
    \E i \in DOMAIN tasks : \E j \in DOMAIN tasks :
        /\ tasks[i].is_recurring
        /\ tasks[i].has_timer /\ tasks[i].timer_duration_seconds = TimerCap
        /\ tasks[i].status = PENDING /\ tasks[i].timer_total_seconds = 0
        /\ ~tasks[j].is_recurring
        /\ tasks[j].status = COMPLETED /\ tasks[j].timer_total_seconds > 0

=============================================================================
